---- MODULE Spec2Model ----
(***************************************************************************)
(* Verification model of the Starkclaw session authority core:             *)
(*   - the session registry       (lib/policy/session-keys.ts)             *)
(*   - the keyring proxy signer   (lib/signer/keyring-proxy-signer.ts)     *)
(*   - the session signer v2      (lib/starknet/session-signer-v2.ts)      *)
(*   - the transaction status poller (lib/activity/use-tx-status-poller.ts)*)
(* Every subsystem has its own specification over the shared variables;    *)
(* the variables of the other subsystems stay at their initial values.     *)
(***************************************************************************)
EXTENDS Integers, Sequences, FiniteSets, TLC

VARIABLES
    \* ---- session registry ----
    now,        \* nowSec(): unix seconds, advanced by Tick
    index,      \* the list stored under starkclaw.session_keys.v1
    secrets,    \* public keys k for which starkclaw.session_pk.<k> is stored
    issued,     \* public keys already generated by getRandomBytesAsync
    ops,        \* registry operations in flight, one slot per async call
    chain,      \* the transaction account.execute submitted last; hash counts them
    calls,      \* number of registry calls made so far
    lastCall,   \* outcome of the registry call that settled last
    \* ---- keyring proxy signer ----
    signer,     \* the fields of one KeyringProxySigner
    inflight,   \* signTransaction calls whose fetch has not settled
    sent,       \* HTTP requests sent to the proxy so far
    signCalls,  \* signTransaction calls made so far
    lastSign,   \* the signTransaction call that settled last
    accepted,   \* BigInt(signature[0]) of every signature returned, in order
    overlapKeys,\* the same, of the calls in flight together since the signer was last idle
    \* ---- on-chain session validity check ----
    validity,   \* the isSessionKeyValidOnchain call in flight, or the last one settled
    \* ---- local session signer (SessionKeySignerV2) ----
    sessionSigner, \* the signer object: its keys and its modeOverride
    signing,       \* the sign call in flight
    signed,        \* the last sign call settled
    \* ---- SNIP-12 typed-data builders ----
    typed,      \* the last typed-data payload built, with the input it was built from
    typedBefore,\* the payload of the call before, when the same builder was called again
    \* ---- feature flags ----
    cache,      \* the in-memory flag record, Null before it is loaded
    stored,     \* what secure storage holds under FLAGS_STORAGE_ID
    flagOp,     \* the setFlag / resetFlags call in flight
    enabled,    \* what the last isEnabled call returned
    \* ---- receipt of one transaction ----
    polled,     \* the last poll of one record: the answer, the result and the record
    \* ---- createLocalSessionKey ----
    created,    \* the last createLocalSessionKey call: its params and the item it built
    \* ---- app state and the Policies screen ----
    policy,     \* state.policy
    appLog,     \* state.activity: the in-memory activity list, newest first
    appended,   \* how many records appendActivity has built
    ownerAuth,  \* requireOwnerAuth of the handler that ran last
    \* ---- Trade screen ----
    trade,      \* the Trade screen: mode, form, modal, handler in flight, last effect
    \* ---- reset ----
    keystore,   \* the namespaced keys secure storage holds
    resetOp,    \* actions.reset in flight, and how the last one went
    \* ---- u256 ----
    u256,       \* a value, its U256Parts and the value read back from them
    \* ---- agent chat and transfer execution ----
    chat,       \* the state of useAgentChatLive and the sendMessage call in flight
    button,     \* the press of the Execute button in flight
    executed,   \* the transfers executed, each with how its owner authentication went
    \* ---- transaction status poller ----
    activity,   \* the activity log: records in append order
    staleCount, \* how many of the oldest records are older than MAX_POLL_AGE_MS
    appState,   \* appStateRef.current
    live,       \* a polling effect has run and has not been cleaned up
    timer,      \* the setTimeout of timeoutRef is pending
    isPolling,  \* isPollingRef.current
    cycle       \* the poll cycle in flight

regVars == <<index, secrets, issued, ops, chain, calls, lastCall>>

keyVars == <<signer, inflight, sent, signCalls, lastSign, accepted, overlapKeys>>

pollVars == <<activity, staleCount, appState, live, timer, isPolling, cycle>>

valVars == <<validity>>

sksVars == <<sessionSigner, signing, signed>>

tdVars == <<typed, typedBefore>>

flagVars == <<cache, stored, flagOp, enabled>>

recVars == <<polled>>

credVars == <<created>>

appVars == <<policy, appLog, appended, ownerAuth>>

tradeVars == <<trade>>

resetVars == <<keystore, resetOp>>

u256Vars == <<u256>>

agentVars == <<chat, button, executed>>

vars == <<now, regVars, keyVars, valVars, sksVars, tdVars, flagVars, recVars, credVars, appVars, tradeVars, resetVars, u256Vars, agentVars, pollVars>>

\* ------------------------------------------------------------------ bounds

MaxKeys == 2
MaxOps == 2
MaxCalls == 3
MaxNow == 1
MaxSign == 3
MaxInflight == 2
ConfigValidUntil == 1
MaxRecords == 4
\* Records in the activity log when the app state, the ages of the records and
\* the subscription all vary.
MaxLogged == 3
\* Records appended to the in-memory activity list: beyond ACTIVITY_KEPT when
\* the list is what is looked at, a few when the policy is.
MaxAppends == 52
MaxPolicyAppends == 4
\* Turns of the chat, delta chunks of one stream, tool calls of one reply,
\* and transfers executed.
MaxTurns == 2
MaxDeltas == 2
MaxToolCalls == 1
MaxExecuted == 2
\* Records logged while subscriptions come and go.
MaxWatched == 2
\* Session keys created before a reset.
MaxSessionKeys == 3
MaxStale == 1

\* ------------------------------------------------------- program constants

MinValidSeconds == 60
ValidAfterSkew == 5
MAX_ALLOWED_TARGETS == 4
MAX_CONCURRENT_POLLS == 3
ACTIVITY_KEPT == 50
RECIPIENTS_KEPT == 8

\* ------------------------------------------------------------------ helpers

Max(a, b) == IF a >= b THEN a ELSE b

Min(a, b) == IF a <= b THEN a ELSE b

\* Array.prototype.slice(0, n)
Slice(s, n) == SubSeq(s, 1, Min(Len(s), n))

\* Array.prototype.findIndex: first position satisfying the test, 0 when none
\* (JavaScript's -1).
FindIndex(list, k) ==
    IF \E i \in 1..Len(list) : list[i].key = k
    THEN CHOOSE i \in 1..Len(list) :
            /\ list[i].key = k
            /\ \A j \in 1..(i - 1) : list[j].key # k
    ELSE 0

\* ========================================================= session registry

Keys == 1..MaxKeys
OpIds == 1..MaxOps

\* Inputs of createLocalSessionKey drawn by the model.
ValidForInputs == {90}
AllowedContractsInputs == {<< >>, <<1, 2, 3, 4, 5>>}

NoSession ==
    [key |-> 0, allowedContracts |-> << >>, createdAt |-> 0, validAfter |-> 0,
     validUntil |-> 0, registeredAt |-> {}, revokedAt |-> {}, lastTxHash |-> {}]

NoTx == [hash |-> 0, entrypoint |-> "none", key |-> 0]

IdleOp ==
    [kind |-> "none", pc |-> "idle", key |-> 0, session |-> NoSession,
     validFor |-> 0, allowed |-> << >>, tx |-> 0, list |-> << >>, todo |-> << >>]

NoCall ==
    [kind |-> "none", key |-> 0, restricted |-> FALSE,
     outcome |-> "none", error |-> "none", tx |-> 0]

Active == {o \in OpIds : ops[o].kind # "none"}

\* The caller starts a registry write only when fewer than `limit` are in
\* flight; the call takes the first free slot.
CanCall(o, limit) ==
    /\ ops[o].kind = "none"
    /\ \A p \in OpIds : p < o => ops[p].kind # "none"
    /\ Cardinality(Active) < limit
    /\ calls < MaxCalls

\* Faulty variant of HasContractRestrictions: the validation is missing.
HasContractRestrictionsNever(session) == Len(session.allowedContracts) > MAX_ALLOWED_TARGETS

\* The validation at the head of registerSessionKeyOnchain: contract-level
\* restrictions are requested.
HasContractRestrictions(session) == Len(session.allowedContracts) > 0

\* The promise of operation o resolves.
Resolve(o) ==
    /\ lastCall' = [kind |-> ops[o].kind, key |-> ops[o].key,
                    restricted |-> Len(ops[o].session.allowedContracts) > 0,
                    outcome |-> "resolved", error |-> "none", tx |-> ops[o].tx]
    /\ ops' = [ops EXCEPT ![o] = IdleOp]

\* The promise of operation o rejects with error e.
Reject(o, e) ==
    /\ lastCall' = [kind |-> ops[o].kind, key |-> ops[o].key,
                    restricted |-> Len(ops[o].session.allowedContracts) > 0,
                    outcome |-> "rejected", error |-> e, tx |-> ops[o].tx]
    /\ ops' = [ops EXCEPT ![o] = IdleOp]

InitRegistry ==
    /\ index = << >>
    /\ secrets = {}
    /\ issued = {}
    /\ ops = [o \in OpIds |-> IdleOp]
    /\ chain = NoTx
    /\ calls = 0
    /\ lastCall = NoCall

\* The wall clock moves on.
Tick ==
    /\ now < MaxNow
    /\ now' = now + 1

\* ---- createLocalSessionKey

\* createLocalSessionKey up to `await Crypto.getRandomBytesAsync(32)`.
CreateCall(o, limit) ==
    /\ CanCall(o, limit)
    /\ issued # Keys
    /\ \E v \in ValidForInputs, a \in AllowedContractsInputs :
          ops' = [ops EXCEPT ![o] =
                    [IdleOp EXCEPT !.kind = "create", !.pc = "random",
                                   !.validFor = v, !.allowed = a,
                                   !.session = [NoSession EXCEPT !.createdAt = now]]]
    /\ calls' = calls + 1
    /\ UNCHANGED <<now, index, secrets, issued, chain, lastCall>>

\* The item createLocalSessionKey builds for public key pub.
NewSessionItem(pub, createdAt, validForSeconds, allowedContracts) ==
    [key |-> pub,
     allowedContracts |-> Slice(allowedContracts, MAX_ALLOWED_TARGETS),
     createdAt |-> createdAt,
     validAfter |-> createdAt - ValidAfterSkew,
     validUntil |-> createdAt + Max(MinValidSeconds, validForSeconds),
     registeredAt |-> {}, revokedAt |-> {}, lastTxHash |-> {}]

\* The random bytes arrive: a fresh key pair is derived (keys are numbered in
\* the order they are generated), the item is built and
\* secureSet(session_pk.<pub>) is issued.
CreateRandom(o) ==
    /\ ops[o].kind = "create" /\ ops[o].pc = "random"
    /\ LET pub == Cardinality(issued) + 1 IN
          /\ issued' = issued \cup {pub}
          /\ ops' = [ops EXCEPT ![o].pc = "setSecret", ![o].key = pub,
                                ![o].session = NewSessionItem(pub, ops[o].session.createdAt,
                                                              ops[o].validFor, ops[o].allowed)]
    /\ UNCHANGED <<now, index, secrets, chain, calls, lastCall>>

\* secureSet(session_pk.<pub>, pk) completes; loadIndex is issued.
CreateSetSecret(o) ==
    /\ ops[o].kind = "create" /\ ops[o].pc = "setSecret"
    /\ secrets' = secrets \cup {ops[o].key}
    /\ ops' = [ops EXCEPT ![o].pc = "loadIndex"]
    /\ UNCHANGED <<now, index, issued, chain, calls, lastCall>>

\* ---- registerSessionKeyOnchain

\* registerSessionKeyOnchain up to `await account.execute(...)`, or up to the
\* throw when the session carries allowedContracts.
RegisterCall(o, limit) ==
    /\ CanCall(o, limit)
    /\ \E i \in 1..Len(index) :
          LET s == index[i] IN
          IF HasContractRestrictions(s)
          THEN /\ lastCall' = [kind |-> "register", key |-> s.key,
                               restricted |-> TRUE, outcome |-> "rejected",
                               error |-> "ContractRestrictionsUnsupported", tx |-> 0]
               /\ UNCHANGED ops
          ELSE /\ ops' = [ops EXCEPT ![o] =
                            [IdleOp EXCEPT !.kind = "register", !.pc = "execute",
                                           !.key = s.key, !.session = s]]
               /\ UNCHANGED lastCall
    /\ calls' = calls + 1
    /\ UNCHANGED <<now, index, secrets, issued, chain>>

\* ---- revokeSessionKeyOnchain

\* revokeSessionKeyOnchain up to `await account.execute(...)`.
RevokeCall(o, limit) ==
    /\ CanCall(o, limit)
    /\ \E k \in Keys :
          ops' = [ops EXCEPT ![o] =
                    [IdleOp EXCEPT !.kind = "revoke", !.pc = "execute",
                                   !.key = k]]
    /\ calls' = calls + 1
    /\ UNCHANGED <<now, index, secrets, issued, chain, lastCall>>

\* ---- emergencyRevokeAllOnchain

\* emergencyRevokeAllOnchain up to `await account.execute(...)`.
EmergencyCall(o, limit) ==
    /\ CanCall(o, limit)
    /\ ops' = [ops EXCEPT ![o] =
                 [IdleOp EXCEPT !.kind = "emergency", !.pc = "execute"]]
    /\ calls' = calls + 1
    /\ UNCHANGED <<now, index, secrets, issued, chain, lastCall>>

\* ---- the steps shared by the three owner-signed operations

Entrypoint(kind) ==
    CASE kind = "register" -> "add_or_update_session_key"
      [] kind = "revoke" -> "revoke_session_key"
      [] kind = "emergency" -> "emergency_revoke_all"

\* account.execute returns the hash of the submitted transaction;
\* account.waitForTransaction is issued next, nothing is stored in between.
\* Faulty variant of ExecuteReturns: the hash is written to the index on submission.
ExecuteReturnsPersisting(o) ==
    /\ ops[o].pc = "execute"
    /\ LET h == chain.hash + 1 IN
          /\ chain' = [hash |-> h, entrypoint |-> Entrypoint(ops[o].kind), key |-> ops[o].key]
          /\ ops' = [ops EXCEPT ![o].pc = "wait", ![o].tx = h]
          /\ index' = [i \in 1..Len(index) |->
                          IF ops[o].kind = "emergency" \/ index[i].key = ops[o].key
                          THEN [index[i] EXCEPT !.lastTxHash = {h}]
                          ELSE index[i]]
    /\ UNCHANGED <<now, secrets, issued, calls, lastCall>>

ExecuteReturns(o) ==
    /\ ops[o].pc = "execute"
    /\ LET h == chain.hash + 1 IN
          /\ chain' = [hash |-> h, entrypoint |-> Entrypoint(ops[o].kind), key |-> ops[o].key]
          /\ ops' = [ops EXCEPT ![o].pc = "wait", ![o].tx = h]
    /\ UNCHANGED <<now, index, secrets, issued, calls, lastCall>>

\* account.execute rejects: nothing was submitted.
ExecuteFails(o) ==
    /\ ops[o].pc = "execute"
    /\ Reject(o, "ExecuteFailed")
    /\ UNCHANGED <<now, index, secrets, issued, chain, calls>>

\* account.waitForTransaction resolves: the transaction is confirmed and
\* loadIndex is issued.
WaitReturns(o) ==
    /\ ops[o].pc = "wait"
    /\ ops' = [ops EXCEPT ![o].pc = "loadIndex"]
    /\ UNCHANGED <<now, index, secrets, issued, chain, calls, lastCall>>

\* Faulty variant of WaitFails: the local bookkeeping runs although confirmation failed.
WaitFailsButMarks(o) ==
    /\ ops[o].pc = "wait"
    /\ Reject(o, "ConfirmationFailed")
    /\ index' = [i \in 1..Len(index) |->
                    IF ops[o].kind = "emergency" \/ index[i].key = ops[o].key
                    THEN IF ops[o].kind = "register"
                         THEN [index[i] EXCEPT !.registeredAt = {now}]
                         ELSE [index[i] EXCEPT !.revokedAt = {now}]
                    ELSE index[i]]
    /\ UNCHANGED <<now, secrets, issued, chain, calls>>

\* account.waitForTransaction rejects (60 retries exhausted, transport error,
\* reverted): the operation rejects right there.
WaitFails(o) ==
    /\ ops[o].pc = "wait"
    /\ Reject(o, "ConfirmationFailed")
    /\ UNCHANGED <<now, index, secrets, issued, chain, calls>>

\* ---- the index read-modify-write after confirmation

\* register: list[i] = {...list[i], registeredAt: nowSec(), lastTxHash}
RegisteredList(list, k, t, tx) ==
    LET i == FindIndex(list, k) IN
    [j \in 1..Len(list) |->
        IF j = i THEN [list[j] EXCEPT !.registeredAt = {t}, !.lastTxHash = {tx}]
        ELSE list[j]]

\* Faulty variant of RevokedList: only the transaction hash is recorded.
RevokedListUnmarked(list, k, t, tx) ==
    LET i == FindIndex(list, k) IN
    [j \in 1..Len(list) |->
        IF j = i THEN [list[j] EXCEPT !.lastTxHash = {tx}] ELSE list[j]]

\* revoke: list[i] = {...list[i], revokedAt: nowSec(), lastTxHash}
RevokedList(list, k, t, tx) ==
    LET i == FindIndex(list, k) IN
    [j \in 1..Len(list) |->
        IF j = i THEN [list[j] EXCEPT !.revokedAt = {t}, !.lastTxHash = {tx}]
        ELSE list[j]]

\* Faulty variant of EmergencyRevokedList: credentials already registered
\* are the only ones marked.
EmergencyRevokedListRegisteredOnly(list, t, tx) ==
    [j \in 1..Len(list) |->
        IF list[j].registeredAt # {}
        THEN [list[j] EXCEPT !.revokedAt = {t}, !.lastTxHash = {tx}]
        ELSE list[j]]

\* emergency: list.map((x) => ({...x, revokedAt, lastTxHash}))
EmergencyRevokedList(list, t, tx) ==
    [j \in 1..Len(list) |-> [list[j] EXCEPT !.revokedAt = {t}, !.lastTxHash = {tx}]]

KeysOf(list) == [j \in 1..Len(list) |-> list[j].key]

\* loadIndex returns; the operation runs on to its next await: it builds the
\* list to save and issues saveIndex, or skips the save when findIndex found
\* nothing.
LoadIndex(o) ==
    /\ ops[o].pc = "loadIndex"
    /\ LET op == ops[o]
           found == FindIndex(index, op.key) > 0
       IN CASE op.kind = "create" ->
                 /\ ops' = [ops EXCEPT ![o].pc = "saveIndex",
                                       ![o].list = Append(index, op.session)]
                 /\ UNCHANGED lastCall
            [] op.kind = "register" /\ found ->
                 /\ ops' = [ops EXCEPT ![o].pc = "saveIndex",
                                       ![o].list = RegisteredList(index, op.key, now, op.tx)]
                 /\ UNCHANGED lastCall
            [] op.kind = "register" /\ ~found -> Resolve(o)
            [] op.kind = "revoke" /\ found ->
                 /\ ops' = [ops EXCEPT ![o].pc = "saveIndex",
                                       ![o].list = RevokedList(index, op.key, now, op.tx)]
                 /\ UNCHANGED lastCall
            [] op.kind = "revoke" /\ ~found ->
                 /\ ops' = [ops EXCEPT ![o].pc = "deleteSecret", ![o].todo = <<op.key>>]
                 /\ UNCHANGED lastCall
            [] op.kind = "emergency" ->
                 /\ ops' = [ops EXCEPT ![o].pc = "saveIndex",
                                       ![o].list = EmergencyRevokedList(index, now, op.tx)]
                 /\ UNCHANGED lastCall
    /\ UNCHANGED <<now, index, secrets, issued, chain, calls>>

\* saveIndex completes: the list of the operation replaces the stored index.
\* create and register return; revoke deletes the secret of its key next;
\* emergency-revoke-all deletes the secret of every credential it saved.
SaveIndex(o) ==
    /\ ops[o].pc = "saveIndex"
    /\ index' = ops[o].list
    /\ LET op == ops[o] IN
       CASE op.kind \in {"create", "register"} -> Resolve(o)
         [] op.kind = "revoke" ->
              /\ ops' = [ops EXCEPT ![o].pc = "deleteSecret", ![o].todo = <<op.key>>]
              /\ UNCHANGED lastCall
         [] op.kind = "emergency" /\ Len(op.list) = 0 -> Resolve(o)
         [] op.kind = "emergency" /\ Len(op.list) > 0 ->
              /\ ops' = [ops EXCEPT ![o].pc = "deleteSecret", ![o].todo = KeysOf(op.list)]
              /\ UNCHANGED lastCall
    /\ UNCHANGED <<now, secrets, issued, chain, calls>>

\* deleteLocalSessionKeySecret(k) completes for the next key to delete; the
\* operation returns { txHash } after the last one.
DeleteSecret(o) ==
    /\ ops[o].pc = "deleteSecret"
    /\ secrets' = secrets \ {Head(ops[o].todo)}
    /\ IF Len(ops[o].todo) = 1
       THEN Resolve(o)
       ELSE /\ ops' = [ops EXCEPT ![o].todo = Tail(ops[o].todo)]
            /\ UNCHANGED lastCall
    /\ UNCHANGED <<now, index, issued, chain, calls>>

\* secureGet / secureSet / secureDelete rejects: the awaiting operation rejects.
KeystoreFails(o) ==
    /\ ops[o].pc \in {"setSecret", "loadIndex", "saveIndex", "deleteSecret"}
    /\ Reject(o, "KeystoreError")
    /\ UNCHANGED <<now, index, secrets, issued, chain, calls>>

\* Registry steps with at most `limit` operations in flight.
RegistryNext(limit) ==
    \/ Tick /\ UNCHANGED regVars
    \/ \E o \in OpIds :
          \/ CreateCall(o, limit)
          \/ CreateRandom(o)
          \/ CreateSetSecret(o)
          \/ RegisterCall(o, limit)
          \/ RevokeCall(o, limit)
          \/ EmergencyCall(o, limit)
          \/ ExecuteReturns(o)
          \/ ExecuteFails(o)
          \/ WaitReturns(o)
          \/ WaitFails(o)
          \/ LoadIndex(o)
          \/ SaveIndex(o)
          \/ DeleteSecret(o)
          \/ KeystoreFails(o)

\* ===================================================== keyring proxy signer

\* A string a response can carry where a felt is expected: hex text with z
\* leading zeros denoting v, or text that is no hex number.
Hex(v, z) == [hex |-> TRUE, v |-> v, z |-> z]
NotHex == [hex |-> FALSE, v |-> 0, z |-> 0]

\* Faulty variant of IsHexFelt: any text passes.
IsHexFeltAlways(f) == TRUE

\* isHexFelt: /^0x[0-9a-fA-F]+$/
IsHexFelt(f) == f.hex

\* num.toHex(BigInt(felt)): the canonical text of the same number.
ToHexOfBigInt(f) == Hex(f.v, 0)

\* Faulty variant of FeltEqualsHex: any two numbers are equal.
FeltEqualsHexAnyNumber(a, b) == a.hex /\ b.hex

\* feltEqualsHex: BigInt(a) === BigInt(b), false when either does not parse.
FeltEqualsHex(a, b) == a.hex /\ b.hex /\ a.v = b.v

PubKeyA == 1
PubKeyB == 2

\* Responses of the proxy drawn by the model. spk is the optional
\* sessionPublicKey, meta the optional requestId / messageHash pair.
SigPubInputs == {Hex(PubKeyA, 0), Hex(PubKeyA, 1), Hex(PubKeyB, 0)}
SigValidUntilInputs ==
    {Hex(ConfigValidUntil, 0), Hex(ConfigValidUntil, 1), Hex(ConfigValidUntil + 1, 0)}
SpkInputs == {{}} \cup {{f} : f \in SigPubInputs \cup {NotHex}}
MetaInputs == {<<{}, {}>>, <<{7}, {9}>>}

\* [pubkey, r, s, valid_until] in every combination of key and window, one
\* 3-element array and one array holding text that is no hex number.
SignatureInputs ==
    {<<p, Hex(5, 0), Hex(6, 0), u>> : p \in SigPubInputs, u \in SigValidUntilInputs}
       \cup {<<Hex(PubKeyA, 0), Hex(5, 0), Hex(6, 0)>>,
              <<Hex(PubKeyA, 0), NotHex, Hex(6, 0), Hex(ConfigValidUntil, 0)>>}

\* config.hmacSecret
HmacSecret == "super-secret"

\* Bodies of non-2xx responses, as the words of their text: json tells
\* whether JSON.parse accepts the text, detail is parsed.message || parsed.error
\* (empty when there is none). The proxy may echo the secret it shares.
Body(json, detail, raw) == [json |-> json, detail |-> detail, raw |-> raw]
NoBody == Body(FALSE, << >>, << >>)

ProxyBodies ==
    {NoBody,
     Body(FALSE, << >>, <<"upstream", "unavailable">>),
     Body(FALSE, << >>, <<"bad", "hmac", "for", HmacSecret>>),
     Body(TRUE, <<"policy", "denied">>, <<"{", "message", ":", "policy", "denied", "}">>),
     Body(TRUE, <<"secret", HmacSecret, "rejected">>,
          <<"{", "error", ":", "secret", HmacSecret, "rejected", "}">>),
     Body(TRUE, << >>, <<"{", "code", ":", "E1", "}">>)}

\* The non-2xx responses, and every 2xx response over the inputs above.
Responses ==
    {[ok |-> FALSE, status |-> "500", body |-> b, signature |-> << >>, spk |-> {},
      meta |-> <<{}, {}>>] : b \in ProxyBodies}
       \cup {[ok |-> TRUE, status |-> "200", body |-> NoBody, signature |-> sig, spk |-> spk,
               meta |-> meta] :
                 sig \in SignatureInputs, spk \in SpkInputs, meta \in MetaInputs}

\* No response was read (the call failed before or without one).
NoResponse ==
    [ok |-> FALSE, status |-> "", body |-> NoBody, signature |-> << >>, spk |-> {},
     meta |-> <<{7}, {}>>]

\* formatProxyError
FormatProxyError(status, body) ==
    IF body.raw = << >> THEN <<"Keyring proxy error", status>>
    ELSE IF body.json /\ body.detail # << >> THEN <<"Keyring proxy error", status>> \o body.detail
    ELSE <<"Keyring proxy error", status>> \o body.raw

\* The message of the Error each failure of signTransaction throws.
ErrorMessage(e, resp) ==
    CASE e = "Expired" -> <<"Remote signer validUntil is already expired">>
      [] e = "ProxyError" -> FormatProxyError(resp.status, resp.body)
      [] e = "MalformedShape" ->
            <<"Invalid keyring signature response: expected [pubkey, r, s, valid_until]">>
      [] e = "MalformedFelt" ->
            <<"Invalid keyring signature response: all signature felts must be hex">>
      [] e = "PubKeyMismatch" ->
            <<"Invalid keyring signature response: sessionPublicKey does not match signature pubkey">>
      [] e = "ValidUntilMismatch" ->
            <<"Invalid keyring signature response: signature valid_until does not match requested window">>
      [] e = "PubKeyChanged" ->
            <<"Invalid keyring signature response: session public key changed unexpectedly">>
      [] e = "TimedOut" -> <<"Keyring proxy request timed out">>
      [] OTHER -> <<e>>

NoSign ==
    [outcome |-> "none", settledBy |-> "none", error |-> "none", message |-> << >>,
     signature |-> << >>, response |-> NoResponse]

InitKeyring ==
    /\ signer = [validUntil |-> ConfigValidUntil, cachedSessionPublicKey |-> {},
                 lastRequestId |-> {}, lastMessageHash |-> {}]
    /\ inflight = 0
    /\ sent = 0
    /\ signCalls = 0
    /\ lastSign = NoSign
    /\ accepted = << >>
    /\ overlapKeys = << >>

\* Faulty variant of PinnedKeyChanged: the comparison with the cached key is
\* made only while nothing is cached, so it never rejects.
PinnedKeyChangedNever(cached, responseSessionPublicKey) ==
    cached = {} /\ \E c \in cached : ~FeltEqualsHex(c, responseSessionPublicKey)

\* this.cachedSessionPublicKey && !feltEqualsHex(cached, responseSessionPublicKey)
PinnedKeyChanged(cached, responseSessionPublicKey) ==
    \E c \in cached : ~FeltEqualsHex(c, responseSessionPublicKey)

\* Faulty variant of ResponseError: the response is checked against the
\* key the call saw cached when it started on an idle signer, none.
ResponseErrorAgainstNone(resp, cached, validUntil) ==
    LET sig == resp.signature IN
    IF ~resp.ok THEN "ProxyError"
    ELSE IF Len(sig) # 4 THEN "MalformedShape"
    ELSE IF \E i \in 1..4 : ~IsHexFelt(sig[i]) THEN "MalformedFelt"
    ELSE IF \E k \in resp.spk : ~IsHexFelt(k) THEN "SyntaxError"
    ELSE IF \E k \in resp.spk : ~FeltEqualsHex(k, ToHexOfBigInt(sig[1])) THEN "PubKeyMismatch"
    ELSE IF ~FeltEqualsHex(ToHexOfBigInt(sig[4]), Hex(validUntil, 0)) THEN "ValidUntilMismatch"
    ELSE "none"

\* The checks signTransaction runs on a settled fetch, in the code's order.
\* Returns the error thrown, or "none" when the response is accepted.
ResponseError(resp, cached, validUntil) ==
    LET sig == resp.signature IN
    IF ~resp.ok THEN "ProxyError"
    ELSE IF Len(sig) # 4 THEN "MalformedShape"
    ELSE IF \E i \in 1..4 : ~IsHexFelt(sig[i]) THEN "MalformedFelt"
    ELSE LET signaturePubKey == ToHexOfBigInt(sig[1])
             signatureValidUntil == ToHexOfBigInt(sig[4])
             expectedValidUntil == Hex(validUntil, 0)
         IN IF \E k \in resp.spk : ~IsHexFelt(k) THEN "SyntaxError"
            ELSE LET responseSessionPublicKey ==
                        IF resp.spk # {}
                        THEN ToHexOfBigInt(CHOOSE k \in resp.spk : TRUE)
                        ELSE signaturePubKey
                 IN IF \E k \in resp.spk : ~FeltEqualsHex(k, signaturePubKey)
                    THEN "PubKeyMismatch"
                    ELSE IF ~FeltEqualsHex(signatureValidUntil, expectedValidUntil)
                    THEN "ValidUntilMismatch"
                    ELSE IF PinnedKeyChanged(cached, responseSessionPublicKey)
                    THEN "PubKeyChanged"
                    ELSE "none"

NormalizedSignature(resp) == [i \in 1..Len(resp.signature) |-> ToHexOfBigInt(resp.signature[i])]

\* responseSessionPublicKey of an accepted response.
ResponseSessionPublicKey(resp) ==
    IF resp.spk # {} THEN ToHexOfBigInt(CHOOSE k \in resp.spk : TRUE)
    ELSE ToHexOfBigInt(resp.signature[1])

SignFails(by, e, resp) ==
    lastSign' = [outcome |-> "error", settledBy |-> by, error |-> e,
                 message |-> ErrorMessage(e, resp), signature |-> << >>, response |-> resp]

\* Faulty variant of Expired: the last second of the window is let through.
ExpiredStrictly(validUntil, nowSec) == validUntil < nowSec

\* this.config.validUntil <= nowSec
Expired(validUntil, nowSec) == validUntil <= nowSec

\* Faulty variant of Caught: every error is rethrown as it is.
CaughtRethrown(name) == name

\* The catch block: an AbortError becomes "timed out", any other is rethrown.
Caught(name) == IF name = "AbortError" THEN "TimedOut" ELSE name

\* signTransaction up to `await fetch(...)`: it throws when the configured
\* window is over, else it builds the body, draws the nonce, signs the
\* headers and sends the request.
SignCall ==
    /\ signCalls < MaxSign
    /\ inflight < MaxInflight
    /\ signCalls' = signCalls + 1
    /\ IF Expired(signer.validUntil, now)
       THEN /\ SignFails("expired", "Expired", NoResponse)
            /\ UNCHANGED <<inflight, sent, overlapKeys>>
       ELSE /\ inflight' = inflight + 1
            /\ sent' = sent + 1
            /\ overlapKeys' = IF inflight = 0 THEN << >> ELSE overlapKeys
            /\ UNCHANGED lastSign
    /\ UNCHANGED <<signer, accepted>>

\* The fetch of one pending call settles with a response; the call validates
\* it, pins the key and returns the normalized signature, or throws.
ResponseArrives ==
    /\ inflight > 0
    /\ inflight' = inflight - 1
    /\ \E resp \in Responses :
          LET e == ResponseError(resp, signer.cachedSessionPublicKey, signer.validUntil) IN
          IF e # "none"
          THEN /\ SignFails("response", e, resp)
               /\ UNCHANGED <<signer, accepted, overlapKeys>>
          ELSE /\ signer' = [signer EXCEPT
                                !.cachedSessionPublicKey = {ResponseSessionPublicKey(resp)},
                                !.lastRequestId = resp.meta[1],
                                !.lastMessageHash = resp.meta[2]]
               /\ lastSign' = [outcome |-> "signature", settledBy |-> "response",
                               error |-> "none", message |-> << >>,
                               signature |-> NormalizedSignature(resp), response |-> resp]
               /\ accepted' = Append(accepted, resp.signature[1].v)
               /\ overlapKeys' = Append(overlapKeys, resp.signature[1].v)
    /\ UNCHANGED <<sent, signCalls>>

\* Faulty variant of RequestTimesOut: the correlation fields of the last
\* signature are cleared.
RequestTimesOutClearing ==
    /\ inflight > 0
    /\ inflight' = inflight - 1
    /\ SignFails("abort", Caught("AbortError"), NoResponse)
    /\ signer' = [signer EXCEPT !.lastRequestId = {}, !.lastMessageHash = {}]
    /\ UNCHANGED <<sent, signCalls, accepted, overlapKeys>>

\* requestTimeoutMs passes first: the controller aborts the fetch and the call
\* throws "Keyring proxy request timed out".
RequestTimesOut ==
    /\ inflight > 0
    /\ inflight' = inflight - 1
    /\ SignFails("abort", Caught("AbortError"), NoResponse)
    /\ UNCHANGED <<signer, sent, signCalls, accepted, overlapKeys>>

\* The fetch rejects with a transport error, which the call rethrows.
FetchFails ==
    /\ inflight > 0
    /\ inflight' = inflight - 1
    /\ SignFails("reject", Caught("Transport"), NoResponse)
    /\ UNCHANGED <<signer, sent, signCalls, accepted, overlapKeys>>

KeyringNext ==
    \/ Tick /\ UNCHANGED keyVars
    \/ SignCall /\ UNCHANGED now
    \/ ResponseArrives /\ UNCHANGED now
    \/ RequestTimesOut /\ UNCHANGED now
    \/ FetchFails /\ UNCHANGED now

\* ========================================= on-chain session validity check

\* An element of the result array that is undefined or null.
Undefined == [hex |-> FALSE, v |-> 1, z |-> 0]

\* What callContract settles with: a rejection (ok = FALSE), a result that is
\* not an array, or an array of up to three elements, each a hex felt, a text
\* that is no number, or undefined.
ResultElements == {Undefined, NotHex, Hex(0, 0), Hex(1, 0), Hex(2, 0)}

CallContractOutcomes ==
    {[ok |-> FALSE, array |-> FALSE, res |-> << >>],
     [ok |-> TRUE, array |-> FALSE, res |-> << >>]}
    \cup {[ok |-> TRUE, array |-> TRUE, res |-> r] :
            r \in {<< >>} \cup [1..1 -> ResultElements] \cup [1..2 -> ResultElements]
                  \cup [1..3 -> ResultElements]}

\* res[i] ?? "0x0" (i counted from 1)
OrZero(res, i) == IF i > Len(res) \/ res[i] = Undefined THEN Hex(0, 0) ELSE res[i]

Returned(b) == [threw |-> FALSE, value |-> b]
Thrown == [threw |-> TRUE, value |-> FALSE]

\* The try block of isSessionKeyValidOnchain: the rejection of callContract,
\* the read of an element of a result that is no array and BigInt of a text
\* that is no number all throw; t is nowSec().
ValidOnchainTry(call, t) ==
    IF ~call.ok \/ ~call.array
    THEN Thrown
    ELSE LET validUntil == OrZero(call.res, 1)
             maxCalls == OrZero(call.res, 2)
             callsUsed == OrZero(call.res, 3)
         IN IF ~validUntil.hex \/ ~maxCalls.hex \/ ~callsUsed.hex
            THEN Thrown
            ELSE Returned(validUntil.v > t /\ callsUsed.v < maxCalls.v)

\* Faulty variant of IsSessionKeyValidOnchain: nothing is caught.
IsSessionKeyValidOnchainUncaught(call, t) == ValidOnchainTry(call, t)

\* isSessionKeyValidOnchain: catch { return false }
IsSessionKeyValidOnchain(call, t) ==
    IF ValidOnchainTry(call, t).threw THEN Returned(FALSE) ELSE ValidOnchainTry(call, t)

NoValidity ==
    [pc |-> "idle", call |-> [ok |-> FALSE, array |-> FALSE, res |-> << >>],
     at |-> 0, result |-> Returned(FALSE)]

InitValidity == validity = NoValidity

\* isSessionKeyValidOnchain up to `await callContract(...)`.
ValidityCall ==
    /\ validity.pc # "calling"
    /\ validity' = [NoValidity EXCEPT !.pc = "calling"]
    /\ UNCHANGED now

\* callContract settles and isSessionKeyValidOnchain runs to its end.
ValiditySettles ==
    /\ validity.pc = "calling"
    /\ \E call \in CallContractOutcomes :
          validity' = [pc |-> "settled", call |-> call, at |-> now,
                       result |-> IsSessionKeyValidOnchain(call, now)]
    /\ UNCHANGED now

ValidityNext ==
    \/ Tick /\ UNCHANGED valVars
    \/ ValidityCall
    \/ ValiditySettles

\* ============================================================ feature flags

FlagIds == {"session_signer_v2"}

\* A flag record: the set of pairs <<flag, value>> it holds.
DEFAULTS == {<<"session_signer_v2", TRUE>>}

HasFlag(flags, flag) == \E p \in flags : p[1] = flag
FlagValue(flags, flag) == (CHOOSE p \in flags : p[1] = flag)[2]

\* { ...a, ...b }
Spread(a, b) == {p \in a : ~HasFlag(b, p[1])} \cup b

\* flags[flag] = value
WithFlag(flags, flag, value) == {p \in flags : p[1] # flag} \cup {<<flag, value>>}

\* What secure storage can hold: nothing, text that is no JSON, or the JSON
\* of a flag record (an earlier build stored the flag as it was set).
Null == [kind |-> "null", flags |-> {}]
Corrupt == [kind |-> "corrupt", flags |-> {}]
Json(flags) == [kind |-> "json", flags |-> flags]

StoredRecords ==
    {Null, Corrupt, Json({}), Json({<<"session_signer_v2", TRUE>>}),
     Json({<<"session_signer_v2", FALSE>>}),
     Json({<<"session_signer_v2", FALSE>>, <<"legacy", TRUE>>})}

\* loadFlags: the record it resolves with (and caches).
LoadFlags(c, raw) ==
    IF c # Null THEN c.flags
    ELSE IF raw.kind = "json" THEN Spread(DEFAULTS, raw.flags)
    ELSE DEFAULTS

\* Faulty variant of IsEnabled: the flag is read from the record.
IsEnabledFromRecord(flag, flags) ==
    IF HasFlag(flags, flag) THEN FlagValue(flags, flag)
    ELSE IF HasFlag(DEFAULTS, flag) THEN FlagValue(DEFAULTS, flag) ELSE FALSE

\* isEnabled
IsEnabled(flag, flags) ==
    IF flag = "session_signer_v2" THEN TRUE
    ELSE IF HasFlag(flags, flag) THEN FlagValue(flags, flag)
    ELSE IF HasFlag(DEFAULTS, flag) THEN FlagValue(DEFAULTS, flag) ELSE FALSE

NoFlagOp == [pc |-> "idle", flag |-> "", value |-> FALSE]

InitFlags ==
    /\ cache = Null
    /\ stored = Null
    /\ flagOp = NoFlagOp
    /\ enabled = "none"

\* The app starts: the module is loaded anew over whatever is stored.
StartOver ==
    /\ flagOp.pc = "idle"
    /\ cache' = Null
    /\ \E raw \in StoredRecords : stored' = raw
    /\ enabled' = "none"
    /\ UNCHANGED flagOp

\* isEnabled(flag), for the record loadFlags would give.
IsEnabledCall ==
    /\ \E flag \in FlagIds :
          enabled' = IF IsEnabled(flag, LoadFlags(cache, stored)) THEN "true" ELSE "false"
    /\ UNCHANGED <<cache, stored, flagOp>>

\* getAllFlags: loadFlags resolves and caches the record.
GetAllFlags ==
    /\ flagOp.pc = "idle"
    /\ cache' = Json(LoadFlags(cache, stored))
    /\ UNCHANGED <<stored, flagOp, enabled>>

\* setFlag up to the await in loadFlags.
SetFlagCall ==
    /\ flagOp.pc = "idle"
    /\ \E flag \in FlagIds, value \in BOOLEAN :
          flagOp' = [pc |-> "load", flag |-> flag, value |-> value]
    /\ UNCHANGED <<cache, stored, enabled>>

\* loadFlags resolves in setFlag: the flag is assigned in the record, which
\* saveFlags caches before it awaits secureSet.
SetFlagAssign ==
    /\ flagOp.pc = "load"
    /\ cache' = Json(WithFlag(LoadFlags(cache, stored), flagOp.flag,
                              IF flagOp.flag = "session_signer_v2" THEN TRUE
                              ELSE flagOp.value))
    /\ flagOp' = [flagOp EXCEPT !.pc = "store"]
    /\ UNCHANGED <<stored, enabled>>

\* resetFlags up to the await of secureSet in saveFlags.
ResetFlagsCall ==
    /\ flagOp.pc = "idle"
    /\ cache' = Json(DEFAULTS)
    /\ flagOp' = [NoFlagOp EXCEPT !.pc = "store"]
    /\ UNCHANGED <<stored, enabled>>

\* secureSet resolves: the cached record is stored.
FlagsStored ==
    /\ flagOp.pc = "store"
    /\ stored' = cache
    /\ flagOp' = NoFlagOp
    /\ UNCHANGED <<cache, enabled>>

\* secureSet rejects: the call rejects, the cache keeps the record.
FlagsStoreFails ==
    /\ flagOp.pc = "store"
    /\ flagOp' = NoFlagOp
    /\ UNCHANGED <<cache, stored, enabled>>

FlagsNext ==
    \/ StartOver
    \/ IsEnabledCall
    \/ GetAllFlags
    \/ SetFlagCall
    \/ SetFlagAssign
    \/ ResetFlagsCall
    \/ FlagsStored
    \/ FlagsStoreFails

\* ================================== local session signer (SessionKeySignerV2)

\* The private key the signer is constructed with.
SessionPrivateKey == "0xabc"

\* ec.starkCurve.getStarkKey
GetStarkKey(privateKey) == IF privateKey = SessionPrivateKey THEN "0xderived" ELSE "0xother"

\* n.toString(16)
HexDigits == <<"0", "1", "2", "3", "4", "5", "6", "7", "8", "9", "a", "b", "c", "d", "e", "f">>

RECURSIVE ToString16(_)
ToString16(n) ==
    IF n < 16 THEN HexDigits[n + 1] ELSE ToString16(n \div 16) \o HexDigits[(n % 16) + 1]

\* A field of a signature object: a bigint, or some text.
BigIntField(n) == [big |-> TRUE, n |-> n, text |-> ""]
TextField(t) == [big |-> FALSE, n |-> 0, text |-> t]

\* What the inner Signer resolves with: an array of felts or an { r, s } object.
ArraySignature(items) == [array |-> TRUE, items |-> items, r |-> TextField(""), s |-> TextField("")]
ObjectSignature(r, s) == [array |-> FALSE, items |-> << >>, r |-> r, s |-> s]

InnerSignatures ==
    {ArraySignature(<<"0xaa", "0xbb">>),
     ArraySignature(<<"0xaa", "0xbb", "0xcc">>),
     ObjectSignature(BigIntField(17), BigIntField(34)),
     ObjectSignature(BigIntField(51), BigIntField(68)),
     ObjectSignature(TextField("0x11"), TextField("0x22"))}

\* signatureToArray
SignatureToArray(sig) ==
    IF sig.array
    THEN sig.items
    ELSE <<IF sig.r.big THEN "0x" \o ToString16(sig.r.n) ELSE sig.r.text,
           IF sig.s.big THEN "0x" \o ToString16(sig.s.n) ELSE sig.s.text>>

\* signerMetadata(mode)
SignerMetadata(mode) ==
    [signature_mode |-> mode, spec_version |-> IF mode = "v2" THEN "2" ELSE "1"]

SignKinds ==
    {"signMessage", "signTransaction", "signDeployAccountTransaction", "signDeclareTransaction"}

NoSigner == [built |-> FALSE, innerKey |-> "", sessionPublicKey |-> "", modeOverride |-> "null"]

NoSigning == [pc |-> "idle", kind |-> "none", mode |-> "null"]

NoSigned ==
    [kind |-> "none", outcome |-> "none", mode |-> "null", signature |-> << >>, signedWith |-> ""]

InitSessionSigner ==
    /\ sessionSigner = NoSigner
    /\ signing = NoSigning
    /\ signed = NoSigned

\* new SessionKeySignerV2(sessionPrivateKey, sessionPublicKey?)
Construct ==
    /\ signing.pc = "idle"
    /\ \E explicit \in {"", "0xexplicit"} :
          sessionSigner' =
              [built |-> TRUE,
               innerKey |-> SessionPrivateKey,
               sessionPublicKey |-> IF explicit # "" THEN explicit
                                    ELSE GetStarkKey(SessionPrivateKey),
               modeOverride |-> "null"]
    /\ signed' = NoSigned
    /\ UNCHANGED signing

\* setModeOverride
SetModeOverride ==
    /\ sessionSigner.built
    /\ \E mode \in {"null", "v1", "v2"} :
          /\ mode # sessionSigner.modeOverride
          /\ sessionSigner' = [sessionSigner EXCEPT !.modeOverride = mode]
    /\ UNCHANGED <<signing, signed>>

\* A sign method is called: signMessage and signTransaction await
\* resolveMode(), the other two call the inner signer at once.
SessionSignCall ==
    /\ sessionSigner.built
    /\ signing.pc = "idle"
    /\ \E kind \in SignKinds :
          signing' = [pc |-> IF kind \in {"signMessage", "signTransaction"}
                             THEN "resolveMode" ELSE "inner",
                      kind |-> kind, mode |-> "null"]
    /\ UNCHANGED <<sessionSigner, signed>>

\* resolveMode() resolves; the inner signer is called.
ResolveMode ==
    /\ signing.pc = "resolveMode"
    /\ signing' = [signing EXCEPT
          !.pc = "inner",
          !.mode = IF sessionSigner.modeOverride # "null" THEN sessionSigner.modeOverride
                   ELSE IF IsEnabled("session_signer_v2", DEFAULTS) THEN "v2" ELSE "v1"]
    /\ UNCHANGED <<sessionSigner, signed>>

\* The inner signer resolves and the sign method returns.
InnerSignReturns ==
    /\ signing.pc = "inner"
    /\ \E sig \in InnerSignatures :
          LET rs == SignatureToArray(sig)
              meta == SignerMetadata(signing.mode)
              result ==
                  IF signing.kind \in {"signDeployAccountTransaction", "signDeclareTransaction"}
                  THEN rs
                  ELSE IF signing.mode = "v2"
                  THEN <<sessionSigner.sessionPublicKey, rs[1], rs[2],
                         meta.signature_mode, meta.spec_version>>
                  ELSE <<sessionSigner.sessionPublicKey, rs[1], rs[2]>>
          IN signed' = [kind |-> signing.kind, outcome |-> "returned", mode |-> signing.mode,
                        signature |-> result, signedWith |-> sessionSigner.innerKey]
    /\ signing' = NoSigning
    /\ UNCHANGED sessionSigner

\* The inner signer rejects: the sign method rejects with its error.
InnerSignFails ==
    /\ signing.pc = "inner"
    /\ signed' = [NoSigned EXCEPT !.kind = signing.kind, !.outcome = "threw",
                                  !.mode = signing.mode]
    /\ signing' = NoSigning
    /\ UNCHANGED sessionSigner

SessionSignerNext ==
    \/ Construct
    \/ SetModeOverride
    \/ SessionSignCall
    \/ ResolveMode
    \/ InnerSignReturns
    \/ InnerSignFails

\* ============================================ SNIP-12 typed-data builders

DOMAIN_NAME == "Starkclaw"
SPEC_VERSION_V2 == "2"

\* `0x${n.toString(16)}`
ToHexText(n) == "0x" \o ToString16(n)

\* Inputs drawn for the builders. A caller may pass a `mode` field, as the
\* parameters of the earlier builders had one ("none": no such field).
ChainIds == {"SN_SEPOLIA", "SN_MAIN"}
AccountAddresses == {"0xacc1", "0xacc2"}
ModeInputs == {"none", "v1", "v2"}
SessionKeyInputs == {"0xkey1", "0xkey2"}
TimeInputs == {0, 255, 1700000000}
AllowedContractInputs == {<<"0x0", "0x0", "0x0", "0x0">>, <<"0xc1", "0xc2", "0x0", "0x0">>}

\* Faulty variant of BuildDomain: the version follows the caller's mode.
BuildDomainByMode(params) ==
    [name |-> DOMAIN_NAME,
     version |-> IF params.mode = "v1" THEN "1" ELSE SPEC_VERSION_V2,
     chainId |-> params.chainId,
     verifyingContract |-> params.accountAddress]

\* buildDomain
BuildDomain(params) ==
    [name |-> DOMAIN_NAME,
     version |-> SPEC_VERSION_V2,
     chainId |-> params.chainId,
     verifyingContract |-> params.accountAddress]

\* buildRegisterSessionKeyTypedData
BuildRegisterSessionKeyTypedData(params) ==
    [primaryType |-> "RegisterSessionKey",
     domain |-> BuildDomain(params),
     message |-> [session_key |-> params.sessionKey,
                  valid_after |-> ToHexText(params.validAfter),
                  valid_until |-> ToHexText(params.validUntil),
                  spending_limit_low |-> params.spendingLimitLow,
                  spending_limit_high |-> params.spendingLimitHigh,
                  spending_token |-> params.spendingToken,
                  allowed_contract_0 |-> params.allowedContract0,
                  allowed_contract_1 |-> params.allowedContract1,
                  allowed_contract_2 |-> params.allowedContract2,
                  allowed_contract_3 |-> params.allowedContract3]]

\* buildRevokeSessionKeyTypedData
BuildRevokeSessionKeyTypedData(params) ==
    [primaryType |-> "RevokeSessionKey",
     domain |-> BuildDomain(params),
     message |-> [session_key |-> params.sessionKey]]

\* buildEmergencyRevokeAllTypedData
BuildEmergencyRevokeAllTypedData(params) ==
    [primaryType |-> "EmergencyRevokeAll",
     domain |-> BuildDomain(params),
     message |-> [nonce |-> ToHexText(params.nonce),
                  timestamp |-> ToHexText(params.timestamp)]]

\* Faulty variant of JsonStringify: the domain is left out.
JsonStringifyMessageOnly(payload) ==
    <<"primaryType", payload.primaryType>>
    \o (CASE payload.primaryType = "RegisterSessionKey" ->
            <<"session_key", payload.message.session_key,
              "valid_after", payload.message.valid_after,
              "valid_until", payload.message.valid_until,
              "spending_limit_low", payload.message.spending_limit_low,
              "spending_limit_high", payload.message.spending_limit_high,
              "spending_token", payload.message.spending_token,
              "allowed_contract_0", payload.message.allowed_contract_0,
              "allowed_contract_1", payload.message.allowed_contract_1,
              "allowed_contract_2", payload.message.allowed_contract_2,
              "allowed_contract_3", payload.message.allowed_contract_3>>
          [] payload.primaryType = "RevokeSessionKey" ->
            <<"session_key", payload.message.session_key>>
          [] payload.primaryType = "EmergencyRevokeAll" ->
            <<"nonce", payload.message.nonce, "timestamp", payload.message.timestamp>>)

\* JSON.stringify of a payload: its keys and values in the order the builder
\* wrote them (the `types` of a payload follow from its primaryType).
JsonStringify(payload) ==
    <<"types", payload.primaryType, "primaryType", payload.primaryType,
      "name", payload.domain.name, "version", payload.domain.version,
      "chainId", payload.domain.chainId,
      "verifyingContract", payload.domain.verifyingContract>>
    \o (CASE payload.primaryType = "RegisterSessionKey" ->
            <<"session_key", payload.message.session_key,
              "valid_after", payload.message.valid_after,
              "valid_until", payload.message.valid_until,
              "spending_limit_low", payload.message.spending_limit_low,
              "spending_limit_high", payload.message.spending_limit_high,
              "spending_token", payload.message.spending_token,
              "allowed_contract_0", payload.message.allowed_contract_0,
              "allowed_contract_1", payload.message.allowed_contract_1,
              "allowed_contract_2", payload.message.allowed_contract_2,
              "allowed_contract_3", payload.message.allowed_contract_3>>
          [] payload.primaryType = "RevokeSessionKey" ->
            <<"session_key", payload.message.session_key>>
          [] payload.primaryType = "EmergencyRevokeAll" ->
            <<"nonce", payload.message.nonce, "timestamp", payload.message.timestamp>>)

NoTyped == [built |-> "none", mode |-> "none", params |-> << >>, payload |-> << >>]

InitTypedData ==
    /\ typed = NoTyped
    /\ typedBefore = NoTyped

\* The typed data a builder returns for an input.
Built(kind, m, p, payload) ==
    /\ typed' = [built |-> kind, mode |-> m, params |-> p, payload |-> payload]
    /\ typedBefore' = NoTyped

\* A caller builds the payload of a session-key registration.
BuildRegister ==
    \E c \in ChainIds, a \in AccountAddresses, m \in ModeInputs, k \in SessionKeyInputs,
       va \in TimeInputs, vu \in TimeInputs, ac \in AllowedContractInputs :
        LET p == [chainId |-> c, accountAddress |-> a, mode |-> m, sessionKey |-> k,
                  validAfter |-> va, validUntil |-> vu,
                  spendingLimitLow |-> "0x64", spendingLimitHigh |-> "0x0",
                  spendingToken |-> "0xt0ken",
                  allowedContract0 |-> ac[1], allowedContract1 |-> ac[2],
                  allowedContract2 |-> ac[3], allowedContract3 |-> ac[4]]
        IN Built("register", m, p, BuildRegisterSessionKeyTypedData(p))

\* A caller builds the payload of a revocation.
BuildRevoke ==
    \E c \in ChainIds, a \in AccountAddresses, m \in ModeInputs, k \in SessionKeyInputs :
        LET p == [chainId |-> c, accountAddress |-> a, mode |-> m, sessionKey |-> k]
        IN Built("revoke", m, p, BuildRevokeSessionKeyTypedData(p))

\* A caller builds the payload of an emergency revocation.
BuildEmergency ==
    \E c \in ChainIds, a \in AccountAddresses, m \in ModeInputs,
       n \in TimeInputs, t \in TimeInputs :
        LET p == [chainId |-> c, accountAddress |-> a, mode |-> m,
                  nonce |-> n, timestamp |-> t]
        IN Built("emergency", m, p, BuildEmergencyRevokeAllTypedData(p))

\* The caller calls the same builder again, for an account and otherwise
\* the input of the last call.
BuildForAccount ==
    /\ typed.built # "none"
    /\ \E a \in AccountAddresses :
          LET p == [typed.params EXCEPT !.accountAddress = a]
          IN /\ typed' = [typed EXCEPT
                            !.params = p,
                            !.payload = CASE typed.built = "register" -> BuildRegisterSessionKeyTypedData(p)
                                          [] typed.built = "revoke" -> BuildRevokeSessionKeyTypedData(p)
                                          [] typed.built = "emergency" -> BuildEmergencyRevokeAllTypedData(p)]
             /\ typedBefore' = typed

TypedDataNext ==
    \/ BuildRegister
    \/ BuildRevoke
    \/ BuildEmergency
    \/ BuildForAccount

\* ================================================ transaction status poller

\* pollTxStatus: what one starknet_getTransactionReceipt answer maps to.
\* The answers: execution_status REVERTED / FAILED / SUCCEEDED, a receipt with
\* a finality_status only ("ACCEPTED"), a receipt with neither ("EMPTY"), an
\* error whose message holds "not found" or "pending" ("NOTFOUND"), any other
\* error ("ERROR").
ReceiptAnswers == {"REVERTED", "FAILED", "SUCCEEDED", "ACCEPTED", "EMPTY", "NOTFOUND", "ERROR"}

\* Faulty variant of PollTxStatus: an error that is neither "not found" nor
\* "pending" is reported as a reverted transaction.
PollTxStatusStoringErrors(answer) ==
    CASE answer \in {"REVERTED", "FAILED", "ERROR"} -> "reverted"
      [] answer \in {"SUCCEEDED", "ACCEPTED"} -> "succeeded"
      [] answer \in {"EMPTY", "NOTFOUND"} -> "null"

PollTxStatus(answer) ==
    CASE answer \in {"REVERTED", "FAILED"} -> "reverted"
      [] answer \in {"SUCCEEDED", "ACCEPTED"} -> "succeeded"
      [] answer \in {"EMPTY", "NOTFOUND"} -> "null"
      [] answer = "ERROR" -> "throw"

\* updateActivityByTxHash(txHash, { status }): the records of that hash take
\* the status.
UpdateActivityByTxHash(list, txHash, status) ==
    [i \in 1..Len(list) |->
        IF list[i].txHash = txHash THEN [list[i] EXCEPT !.status = status] ELSE list[i]]

NoCycle ==
    [pc |-> "idle", cancelled |-> FALSE, stale |-> 0, items |-> << >>, tasks |-> << >>,
     next |-> 1, waiting |-> FALSE]

InitPoller ==
    /\ activity = << >>
    /\ staleCount = 0
    /\ appState = "active"
    /\ live = FALSE
    /\ timer = FALSE
    /\ isPolling = FALSE
    /\ cycle = NoCycle

\* The tasks of runWithLimit that are in its `running` set.
\* How a task has ended: fn(item) returned ("done"), or its catch logged
\* "Failed to poll tx" for a receipt request that threw ("pollFailed") or for
\* an update that rejected ("updateFailed").
Settled == {"done", "pollFailed", "updateFailed"}

RunningOf(c) == {i \in 1..Len(c.tasks) : c.tasks[i] \notin {"queued"} \cup Settled}

Running == RunningOf(cycle)

\* The receipt requests in flight.
InFlightReceipts == {i \in 1..Len(cycle.tasks) : cycle.tasks[i] = "receipt"}

\* The app submits a transfer: a pending record with a transaction hash is
\* appended.
AppendActivity(limit) ==
    /\ Len(activity) < limit
    /\ activity' = Append(activity, [txHash |-> Len(activity) + 1, status |-> "pending"])
    /\ UNCHANGED <<staleCount, appState, live, timer, isPolling, cycle>>

\* Time passes: the oldest record not yet older than MAX_POLL_AGE_MS gets so.
RecordAges ==
    /\ staleCount < Min(Len(activity), MaxStale)
    /\ staleCount' = staleCount + 1
    /\ UNCHANGED <<activity, appState, live, timer, isPolling, cycle>>

\* handleAppStateChange
AppStateChange ==
    /\ \E nextState \in {"active", "inactive", "background"} \ {appState} :
          appState' = nextState
    /\ UNCHANGED <<activity, staleCount, live, timer, isPolling, cycle>>

\* Faulty variant of IsBackgrounded: the app state is not looked at.
IsBackgroundedNever(state) == FALSE

\* appStateRef.current.match(/inactive|background/)
IsBackgrounded(state) == state \in {"inactive", "background"}

\* Faulty variant of Poll: the in-flight guard is not looked at.
PollUnguarded(cancelled) ==
    IF cancelled
    THEN UNCHANGED <<isPolling, cycle>>
    ELSE IF IsBackgrounded(appState)
    THEN timer' = TRUE /\ UNCHANGED <<isPolling, cycle>>
    ELSE /\ isPolling' = TRUE
         /\ cycle' = [NoCycle EXCEPT !.pc = "listing", !.stale = staleCount]

\* poll(), up to its first await or its return. `cancelled` is the flag of
\* the closure it belongs to.
Poll(cancelled) ==
    IF cancelled \/ isPolling
    THEN UNCHANGED <<isPolling, cycle>>
    ELSE IF IsBackgrounded(appState)
    THEN timer' = TRUE /\ UNCHANGED <<isPolling, cycle>>
    ELSE /\ isPolling' = TRUE
         /\ cycle' = [NoCycle EXCEPT !.pc = "listing", !.stale = staleCount]

\* The polling effect runs (live mode, wallet loaded): a new closure with
\* cancelled = false makes the initial poll() call. No timeout is pending:
\* the cleanup of the previous effect cleared it.
Subscribe ==
    /\ ~live
    /\ live' = TRUE
    /\ Poll(FALSE)
    /\ IF ~isPolling /\ IsBackgrounded(appState) THEN TRUE ELSE UNCHANGED timer
    /\ UNCHANGED <<activity, staleCount, appState>>

\* The cleanup of the polling effect: cancelled = true for its closure, and
\* so for the cycle it has in flight; the pending timeout is cleared.
Teardown ==
    /\ live
    /\ live' = FALSE
    /\ timer' = FALSE
    /\ cycle' = IF cycle.pc = "idle" THEN cycle ELSE [cycle EXCEPT !.cancelled = TRUE]
    /\ UNCHANGED <<activity, staleCount, appState, isPolling>>

\* The pending timeout fires and calls poll() of the closure that armed it,
\* which is the live one: the cleanup of a closure clears its timeout.
TimerFires ==
    /\ timer
    /\ Poll(~live)
    /\ IF ~isPolling /\ IsBackgrounded(appState) /\ live THEN TRUE ELSE timer' = FALSE
    /\ UNCHANGED <<activity, staleCount, appState, live>>

\* Faulty variant of PendingItems: every record with a transaction hash is
\* selected, whatever its status.
PendingItemsAnyStatus(list) ==
    SelectSeq([i \in 1..Len(list) |-> i], LAMBDA i : list[i].txHash # 0)

\* items.filter((item) => item.status === "pending" && item.txHash)
PendingItems(list) ==
    SelectSeq([i \in 1..Len(list) |-> i], LAMBDA i : list[i].status = "pending" /\ list[i].txHash # 0)

\* Faulty variant of Finally: the next poll is scheduled whether or not the
\* closure was cancelled.
FinallyAlwaysSchedules ==
    /\ isPolling' = FALSE
    /\ cycle' = NoCycle
    /\ timer' = TRUE

\* The finally block of poll(): the guard is released and, unless this
\* closure was cancelled, the next poll is scheduled.
Finally ==
    /\ isPolling' = FALSE
    /\ cycle' = NoCycle
    /\ timer' = IF cycle.cancelled THEN timer ELSE TRUE

\* Faulty variant of TooOld: no record is too old to poll.
TooOldNever(item, stale) == FALSE

\* ageMs > MAX_POLL_AGE_MS, for the record at place `item` of the log when
\* the `stale` oldest records were beyond that age at the start of the cycle.
TooOld(item, stale) == item <= stale

\* Faulty variant of AtLimit: one task too many is let in.
AtLimitOffByOne(size, limit) == size > limit

\* running.size >= limit
AtLimit(size, limit) == size >= limit

\* The loop of runWithLimit from where it stands to its next await or its
\* end: fn(item) runs to its first await (the update of a stale record, or
\* the receipt request), its promise joins `running`, and the loop awaits
\* Promise.race once the limit is reached.
RECURSIVE RunLoop(_)
RunLoop(c) ==
    IF c.next > Len(c.items)
    THEN c
    ELSE LET i == c.next
             first == IF TooOld(c.items[i], c.stale) THEN "marking" ELSE "receipt"
             started == [c EXCEPT !.tasks[i] = first, !.next = i + 1]
         IN IF AtLimit(Cardinality(RunningOf(started)), MAX_CONCURRENT_POLLS)
            THEN [started EXCEPT !.waiting = TRUE]
            ELSE RunLoop(started)

\* listActivity() resolves: the pending records are selected and runWithLimit
\* starts on them, or the cycle ends when there are none.
ListReturns ==
    /\ cycle.pc = "listing"
    /\ LET items == PendingItems(activity) IN
       IF Len(items) = 0
       THEN Finally
       ELSE /\ cycle' = RunLoop([cycle EXCEPT !.pc = "running", !.items = items,
                                    !.tasks = [i \in 1..Len(items) |-> "queued"]])
            /\ UNCHANGED <<timer, isPolling>>
    /\ UNCHANGED <<activity, staleCount, appState, live>>

\* listActivity() rejects: "Poll cycle failed" is logged, then finally.
ListFails ==
    /\ cycle.pc = "listing"
    /\ Finally
    /\ UNCHANGED <<activity, staleCount, appState, live>>

\* Task i settles: it leaves `running`, which resumes a loop awaiting the
\* race; when the loop is over and no task is left, Promise.allSettled
\* resolves and the cycle ends.
TaskSettles(i, how) ==
    LET done == [cycle EXCEPT !.tasks[i] = how]
        c == IF cycle.waiting THEN RunLoop([done EXCEPT !.waiting = FALSE]) ELSE done
    IN IF c.next > Len(c.items) /\ RunningOf(c) = {}
       THEN Finally
       ELSE cycle' = c /\ UNCHANGED <<timer, isPolling>>

\* The receipt request of task i settles with an answer; a status to store
\* starts updateActivityByTxHash, null ends the task and a throw ends it in
\* the catch.
ReceiptAnswered(i, answer) ==
    /\ cycle.pc = "running"
    /\ i \in InFlightReceipts
    /\ LET r == PollTxStatus(answer) IN
          CASE r = "null" -> TaskSettles(i, "done")
            [] r = "throw" -> TaskSettles(i, "pollFailed")
            [] OTHER -> cycle' = [cycle EXCEPT !.tasks[i] = r] /\ UNCHANGED <<timer, isPolling>>
    /\ UNCHANGED <<activity, staleCount, appState, live>>

ReceiptReturns(i) == \E answer \in ReceiptAnswers : ReceiptAnswered(i, answer)

\* updateActivityByTxHash of task i resolves: the record takes the status
\* ("unknown" for a stale record) and the task ends.
UpdateReturns(i) ==
    /\ cycle.pc = "running"
    /\ i \in Running \ InFlightReceipts
    /\ activity' = UpdateActivityByTxHash(activity, activity[cycle.items[i]].txHash,
                      IF cycle.tasks[i] = "marking" THEN "unknown" ELSE cycle.tasks[i])
    /\ TaskSettles(i, "done")
    /\ UNCHANGED <<staleCount, appState, live>>

\* updateActivityByTxHash of task i rejects: "Failed to poll tx" is logged.
UpdateFails(i) ==
    /\ cycle.pc = "running"
    /\ i \in Running \ InFlightReceipts
    /\ TaskSettles(i, "updateFailed")
    /\ UNCHANGED <<activity, staleCount, appState, live>>

PollerNext(limit) ==
    \/ AppendActivity(limit)
    \/ RecordAges
    \/ AppStateChange
    \/ Subscribe
    \/ Teardown
    \/ TimerFires
    \/ ListReturns
    \/ ListFails
    \/ \E i \in 1..limit : ReceiptReturns(i) \/ UpdateReturns(i) \/ UpdateFails(i)

\* The poller of an app that stays in the foreground with young records: the
\* pool of runWithLimit under every order of receipts, updates, timer firings,
\* teardowns and new subscriptions.
PoolNext(limit) ==
    \/ AppendActivity(limit)
    \/ Subscribe
    \/ Teardown
    \/ TimerFires
    \/ ListReturns
    \/ ListFails
    \/ \E i \in 1..limit : ReceiptReturns(i) \/ UpdateReturns(i) \/ UpdateFails(i)

\* ================================================ receipt to record status

\* A field that is not there, and the null updateActivityByTxHash is given.
Absent == "<undefined>"
NullValue == "<null>"

\* a ?? b
Coalesce(a, b) == IF a \in {Absent, NullValue} THEN b ELSE a

\* Whether JavaScript takes the text as true in a condition.
Truthy(a) == a \notin {Absent, NullValue, ""}

ExecutionStatuses == {Absent, "SUCCEEDED", "FAILED", "REVERTED"}
FinalityStatuses == {Absent, "ACCEPTED_ON_L2", "ACCEPTED_ON_L1"}
RevertReasons == {Absent, "", "out of gas"}

\* The receipts starknet_getTransactionReceipt answers with.
Receipts ==
    [execution_status : ExecutionStatuses, finality_status : FinalityStatuses,
     revert_reason : RevertReasons]

\* The messages of the errors starknetRpc rejects with, word by word.
RpcErrorMessages ==
    {<<"Transaction", "hash", "not", "found">>, <<"Transaction", "is", "pending">>,
     <<"HTTP", "500">>, <<"request", "timed", "out">>, <<"Not", "Found">>}

\* msg.includes(words)
Includes(msg, words) ==
    \E i \in 1..(Len(msg) - Len(words) + 1) : SubSeq(msg, i, i + Len(words) - 1) = words

TxHashes == {"0x1", "0x2", "0x3"}

NullResult ==
    [kind |-> "null", status |-> Absent, executionStatus |-> Absent, revertReason |-> Absent]
ThrownResult ==
    [kind |-> "throw", status |-> Absent, executionStatus |-> Absent, revertReason |-> Absent]
StatusResult(status, executionStatus, revertReason) ==
    [kind |-> "value", status |-> status, executionStatus |-> executionStatus,
     revertReason |-> revertReason]

\* The FAILED branch of pollTxStatus: revertReason is left unassigned.
FailedResult(receipt) ==
    StatusResult("reverted", "FAILED", Absent)

\* pollTxStatus when the receipt arrives.
ReceiptResult(receipt) ==
    IF receipt.execution_status = "REVERTED"
    THEN StatusResult("reverted", "REVERTED",
                      Coalesce(receipt.revert_reason, "Transaction reverted"))
    ELSE IF receipt.execution_status = "FAILED"
    THEN FailedResult(receipt)
    ELSE IF receipt.execution_status = "SUCCEEDED" \/ Truthy(receipt.finality_status)
    THEN StatusResult("succeeded", Coalesce(receipt.execution_status, "SUCCEEDED"), Absent)
    ELSE NullResult

\* pollTxStatus when starknetRpc rejects.
ErrorResult(msg) ==
    IF Includes(msg, <<"not", "found">>) \/ Includes(msg, <<"pending">>)
    THEN NullResult
    ELSE ThrownResult

PendingRecord(txHash) ==
    [txHash |-> txHash, status |-> "pending", executionStatus |-> Absent,
     revertReason |-> Absent]

\* The task of poll() on a record that is not too old: a result is stored with
\* updateActivityByTxHash, null stores nothing, a throw is logged.
PolledRecord(record, result) ==
    IF result.kind = "value"
    THEN [record EXCEPT !.status = result.status,
                        !.executionStatus = Coalesce(result.executionStatus, NullValue),
                        !.revertReason = Coalesce(result.revertReason, NullValue)]
    ELSE record

NoReceipt ==
    [execution_status |-> Absent, finality_status |-> Absent, revert_reason |-> Absent]

NoPolled ==
    [answer |-> "none", receipt |-> NoReceipt, message |-> << >>, result |-> NullResult,
     updated |-> FALSE, record |-> PendingRecord("0x1")]

InitReceipt == polled = NoPolled

\* A pending record is polled and the receipt arrives.
ReceiptArrives ==
    \E txHash \in TxHashes, receipt \in Receipts :
        LET result == ReceiptResult(receipt)
        IN  polled' = [answer |-> "receipt", receipt |-> receipt, message |-> << >>,
                       result |-> result, updated |-> result.kind = "value",
                       record |-> PolledRecord(PendingRecord(txHash), result)]

\* A pending record is polled and the request rejects.
RpcRejects ==
    \E txHash \in TxHashes, msg \in RpcErrorMessages :
        LET result == ErrorResult(msg)
        IN  polled' = [answer |-> "error", receipt |-> NoReceipt, message |-> msg,
                       result |-> result, updated |-> result.kind = "value",
                       record |-> PolledRecord(PendingRecord(txHash), result)]

ReceiptNext ==
    \/ ReceiptArrives
    \/ RpcRejects

\* ============================================ the item of createLocalSessionKey

DecimalDigits == <<"0", "1", "2", "3", "4", "5", "6", "7", "8", "9">>

\* BigInt.prototype.toString(): the decimal digits, after "-" when negative.
RECURSIVE DigitsOf(_)
DigitsOf(n) ==
    IF n < 10 THEN <<DecimalDigits[n + 1]>> ELSE Append(DigitsOf(n \div 10), DecimalDigits[(n % 10) + 1])

BigIntToString(n) == IF n < 0 THEN <<"-">> \o DigitsOf(0 - n) ELSE DigitsOf(n)

\* The integer a decimal string stands for.
RECURSIVE DigitsValue(_)
DigitsValue(d) ==
    IF Len(d) = 0 THEN 0
    ELSE 10 * DigitsValue(SubSeq(d, 1, Len(d) - 1))
         + (CHOOSE k \in 0..9 : DecimalDigits[k + 1] = d[Len(d)])

DecimalValue(text) ==
    IF Len(text) > 0 /\ Head(text) = "-" THEN 0 - DigitsValue(Tail(text)) ELSE DigitsValue(text)

SpendingLimitParams == {0 - 1, 0, 1, 10000000}
ValidForSecondsParams == {0 - 3600, 0, 59, 60, 61, 3600}
AllowedContractsParams == {SubSeq(<<"0xa1", "0xa2", "0xa3", "0xa4", "0xa5">>, 1, n) : n \in 0..5}
CreatedAtTimes == {1700000000, 1700000007}

\* The item createLocalSessionKey builds, stores in the index and returns.
LocalSessionKey(pub, createdAt, params) ==
    [spendingLimit |-> BigIntToString(params.spendingLimit)]
    @@ NewSessionItem(pub, createdAt, params.validForSeconds, params.allowedContracts)

NoCredential ==
    [called |-> FALSE,
     params |-> [spendingLimit |-> 0, validForSeconds |-> 0, allowedContracts |-> << >>],
     item |-> [spendingLimit |-> << >>] @@ NoSession]

InitCredential == created = NoCredential

CreateLocalSessionKey ==
    \E limit \in SpendingLimitParams, validFor \in ValidForSecondsParams,
       allowed \in AllowedContractsParams, createdAt \in CreatedAtTimes :
        LET params == [spendingLimit |-> limit, validForSeconds |-> validFor,
                       allowedContracts |-> allowed]
        IN  created' = [called |-> TRUE, params |-> params,
                        item |-> LocalSessionKey(PubKeyA, createdAt, params)]

CredentialNext == CreateLocalSessionKey

\* ===================================== app state and the Policies screen

CapInputs == {50, 100}
ContractModes == {"trusted-only", "warn", "open"}
RecipientInputs == {"0xr1", "0xr2"}
TargetInputs == {<< >>, <<"0xa1">>}

InitialPolicy ==
    [dailySpendCapUsd |-> 100, perTxCapUsd |-> 50, contractAllowlistMode |-> "warn",
     allowlistedRecipients |-> << >>, allowedTargets |-> << >>, emergencyLockdown |-> FALSE]

\* How requireOwnerAuth stands for the handler that ran last: not called
\* ("none"), awaiting the prompt for the switch value v ("pending"), resolved
\* after authenticateAsync succeeded ("succeeded"), resolved without a prompt
\* on a device without hardware or enrolment ("skipped"), or thrown
\* ("failed").
NoAuth == [status |-> "none", value |-> FALSE]

InitApp ==
    /\ policy = InitialPolicy
    /\ appLog = << >>
    /\ appended = 0
    /\ ownerAuth = NoAuth

\* Faulty variant of ActivityAfterAppend: the new record goes to the end.
ActivityAfterAppendAtEnd(list, item) == Slice(Append(list, item), ACTIVITY_KEPT)

\* [item, ...state.activity].slice(0, 50)
ActivityAfterAppend(list, item) == Slice(<<item>> \o list, ACTIVITY_KEPT)

\* appendActivity(state, "policy_updated", ...) on the activity part of the
\* state; items are numbered in the order they are built.
AppendPolicyUpdated ==
    /\ appended' = appended + 1
    /\ appLog' = ActivityAfterAppend(appLog, [id |-> appended + 1, kind |-> "policy_updated"])

\* onSaveCaps: actions.updateSpendCaps
SaveCaps(limit) ==
    /\ appended < limit
    /\ \E dailyUsd \in CapInputs, perTxUsd \in CapInputs :
          /\ policy' = [policy EXCEPT !.dailySpendCapUsd = dailyUsd, !.perTxCapUsd = perTxUsd]
          /\ IF policy.dailySpendCapUsd # dailyUsd \/ policy.perTxCapUsd # perTxUsd
             THEN AppendPolicyUpdated
             ELSE UNCHANGED <<appLog, appended>>
    /\ ownerAuth' = NoAuth

\* onAddRecipient: actions.addAllowlistedRecipient
AddRecipient(limit) ==
    /\ appended < limit
    /\ \E next \in RecipientInputs :
          IF \E i \in 1..Len(policy.allowlistedRecipients) : policy.allowlistedRecipients[i] = next
          THEN UNCHANGED <<policy, appLog, appended>>
          ELSE /\ policy' = [policy EXCEPT !.allowlistedRecipients =
                                Slice(<<next>> \o policy.allowlistedRecipients, RECIPIENTS_KEPT)]
               /\ AppendPolicyUpdated
    /\ ownerAuth' = NoAuth

\* The remove button of a listed recipient: actions.removeAllowlistedRecipient
RemoveRecipient(limit) ==
    /\ appended < limit
    /\ \E i \in 1..Len(policy.allowlistedRecipients) :
          policy' = [policy EXCEPT !.allowlistedRecipients =
                        SelectSeq(policy.allowlistedRecipients,
                                  LAMBDA x : x # policy.allowlistedRecipients[i])]
    /\ AppendPolicyUpdated
    /\ ownerAuth' = NoAuth

\* The Segment of the contract allow-list mode: actions.setContractMode
SetContractMode ==
    /\ \E mode \in ContractModes : policy' = [policy EXCEPT !.contractAllowlistMode = mode]
    /\ ownerAuth' = NoAuth
    /\ UNCHANGED <<appLog, appended>>

\* onSaveConfiguration: actions.setAllowedTargets
SaveConfiguration(limit) ==
    /\ appended < limit
    /\ \E targets \in TargetInputs : policy' = [policy EXCEPT !.allowedTargets = targets]
    /\ AppendPolicyUpdated
    /\ ownerAuth' = NoAuth

\* The emergency lockdown switch is moved to v: requireOwnerAuth is awaited.
LockdownSwitch ==
    /\ ownerAuth.status # "pending"
    /\ \E v \in BOOLEAN : ownerAuth' = [status |-> "pending", value |-> v]
    /\ UNCHANGED <<policy, appLog, appended>>

\* requireOwnerAuth settles: it throws when authenticateAsync does not
\* succeed, and resolves when it succeeds or when the device has no hardware
\* or no enrolment; on resolve actions.setEmergencyLockdown(v) runs.
OwnerAuthSettles(limit) ==
    /\ ownerAuth.status = "pending"
    /\ \E outcome \in {"succeeded", "skipped", "failed"} :
          /\ ownerAuth' = [ownerAuth EXCEPT !.status = outcome]
          /\ IF outcome = "failed"
             THEN UNCHANGED <<policy, appLog, appended>>
             ELSE /\ appended < limit
                  /\ policy' = [policy EXCEPT !.emergencyLockdown = ownerAuth.value]
                  /\ AppendPolicyUpdated

\* actions.reset, the in-memory part: setState(createInitialLiveState())
ResetState ==
    /\ policy' = InitialPolicy
    /\ appLog' = << >>
    /\ ownerAuth' = NoAuth
    /\ UNCHANGED appended

AppNext(limit) ==
    \/ SaveCaps(limit)
    \/ AddRecipient(limit)
    \/ RemoveRecipient(limit)
    \/ SetContractMode
    \/ SaveConfiguration(limit)
    \/ LockdownSwitch
    \/ OwnerAuthSettles(limit)
    \/ ResetState

\* The handlers that append through the lockdown switch only.
AppLogNext(limit) ==
    \/ SetContractMode
    \/ LockdownSwitch
    \/ OwnerAuthSettles(limit)
    \/ ResetState

\* ======================================================= the Trade screen

Syms == {"ETH", "USDC", "STRK"}

\* What the policy check of the Trade screen looks at besides the policy: the
\* pair, whether the balances of the two assets are known, the amount after
\* clamp and the USD price of the asset sold.
TradeInputs ==
    [from : {"STRK", "USDC"}, to : {"USDC"}, fromAsset : BOOLEAN, toAsset : BOOLEAN,
     amount : {0, 1, 80}, usdPrice : {0, 1}]

FromUsd(x) == x.usdPrice * x.amount

\* Faulty variant of Blocked: the cap test is the wrong way round.
BlockedBelowCap(p, x) ==
    \/ p.emergencyLockdown
    \/ x.from = x.to
    \/ ~x.fromAsset \/ ~x.toAsset
    \/ x.amount <= 0
    \/ FromUsd(x) < p.perTxCapUsd

\* const blocked = ...
Blocked(p, x) ==
    \/ p.emergencyLockdown
    \/ x.from = x.to
    \/ ~x.fromAsset \/ ~x.toAsset
    \/ x.amount <= 0
    \/ FromUsd(x) > p.perTxCapUsd

\* Faulty variant of Reason: the lockdown is looked at last.
ReasonLockdownLast(p, x) ==
    IF x.from = x.to THEN "Pick two different assets."
    ELSE IF ~x.fromAsset \/ ~x.toAsset THEN "Missing asset data."
    ELSE IF x.amount <= 0 THEN "Enter an amount."
    ELSE IF FromUsd(x) > p.perTxCapUsd THEN "Exceeds per-tx cap"
    ELSE IF p.emergencyLockdown THEN "Emergency lockdown is enabled."
    ELSE "null"

\* const reason = ... ("null" for null; the cap message without its amount)
Reason(p, x) ==
    IF p.emergencyLockdown THEN "Emergency lockdown is enabled."
    ELSE IF x.from = x.to THEN "Pick two different assets."
    ELSE IF ~x.fromAsset \/ ~x.toAsset THEN "Missing asset data."
    ELSE IF x.amount <= 0 THEN "Enter an amount."
    ELSE IF FromUsd(x) > p.perTxCapUsd THEN "Exceeds per-tx cap"
    ELSE "null"

\* The forms the user fills in: an affordable trade, one above a cap of 50,
\* no amount, and twice the same asset.
TradeForms ==
    {x \in TradeInputs :
        /\ x.fromAsset /\ x.toAsset /\ x.usdPrice = 1
        /\ x.from = x.to => x.amount = 1}

InitialForm ==
    [from |-> "STRK", to |-> "USDC", fromAsset |-> TRUE, toAsset |-> TRUE,
     amount |-> 80, usdPrice |-> 1]

\* pc: no handler in flight ("idle"), handlePreview awaiting haptic
\* ("tapQuote") or swap.quote ("quoting"), handleExecute awaiting haptic
\* ("tapSimulate") or swap.confirm ("confirming"). last: what the last step
\* of the screen did.
InitTrade ==
    trade = [live |-> FALSE, x |-> InitialForm, previewOpen |-> FALSE, pc |-> "idle",
             alert |-> "none", last |-> "none"]

\* The app runs in demo or in live mode.
EnterMode ==
    /\ trade.pc = "idle" /\ ~trade.previewOpen
    /\ \E isLive \in BOOLEAN :
          trade' = [trade EXCEPT !.live = isLive, !.last = "mode"]

\* The user edits the pair or the amount.
SetForm ==
    /\ trade.pc = "idle" /\ ~trade.previewOpen
    /\ \E x \in TradeForms : trade' = [trade EXCEPT !.x = x, !.last = "edited"]

\* handlePreview up to its return or its first await (wallet loaded).
HandlePreview ==
    /\ trade.pc = "idle" /\ ~trade.previewOpen
    /\ trade' =
          IF Blocked(policy, trade.x)
          THEN [trade EXCEPT !.alert = Reason(policy, trade.x), !.last = "denied"]
          ELSE IF ~trade.live
          THEN [trade EXCEPT !.previewOpen = TRUE, !.last = "previewOpened"]
          ELSE [trade EXCEPT !.pc = "tapQuote", !.last = "tapped"]

\* haptic("tap") of handlePreview resolves: swap.quote is called.
QuoteRequested ==
    /\ trade.pc = "tapQuote"
    /\ trade' = [trade EXCEPT !.pc = "quoting", !.last = "quoteRequested"]

\* swap.quote settles and the effect on the swap state runs: the preview
\* opens, or "Quote Failed" is alerted.
QuoteSettles ==
    /\ trade.pc = "quoting"
    /\ \/ trade' = [trade EXCEPT !.pc = "idle", !.previewOpen = TRUE, !.last = "previewOpened"]
       \/ trade' = [trade EXCEPT !.pc = "idle", !.alert = "Quote Failed", !.last = "alerted"]

\* handleExecute, pressed in the preview, up to its return or first await.
HandleExecute ==
    /\ trade.pc = "idle" /\ trade.previewOpen
    /\ trade' =
          IF Blocked(policy, trade.x)
          THEN [trade EXCEPT !.alert = Reason(policy, trade.x), !.previewOpen = FALSE,
                             !.last = "denied"]
          ELSE IF ~trade.live
          THEN [trade EXCEPT !.pc = "tapSimulate", !.last = "tapped"]
          ELSE [trade EXCEPT !.pc = "confirming", !.last = "swapConfirmed"]

\* haptic("success") of handleExecute resolves: actions.simulateTrade.
TradeSimulated ==
    /\ trade.pc = "tapSimulate"
    /\ trade' = [trade EXCEPT !.pc = "idle", !.previewOpen = FALSE, !.last = "tradeSimulated"]

\* swap.confirm settles and the effect on the swap state runs.
ConfirmSettles ==
    /\ trade.pc = "confirming"
    /\ \E alert \in {"Swap Submitted", "Swap Failed"} :
          trade' = [trade EXCEPT !.pc = "idle", !.previewOpen = FALSE, !.alert = alert,
                                 !.last = "alerted"]

\* The close and cancel buttons of the preview.
ClosePreview ==
    /\ trade.previewOpen
    /\ trade' = [trade EXCEPT !.previewOpen = FALSE, !.last = "closed"]

TradeNext ==
    \/ EnterMode
    \/ SetForm
    \/ HandlePreview
    \/ QuoteRequested
    \/ QuoteSettles
    \/ HandleExecute
    \/ TradeSimulated
    \/ ConfirmSettles
    \/ ClosePreview

\* ================================================================== reset

\* The keys of the secrets: the owner credential, the session index
\* (SESSION_KEYS_INDEX_ID) and session_pk.<publicKey>.
OwnerKey == <<"owner", 0>>
SessionIndexKey == <<"session_keys", 0>>
SessionPkStorageKey(pub) == <<"session_pk", pub>>

NoReset == [pc |-> "idle", failed |-> FALSE, cleared |-> FALSE]

InitReset ==
    /\ keystore = {}
    /\ resetOp = NoReset

\* createWallet persists the owner credential.
WalletCreated ==
    /\ resetOp.pc \in {"idle", "done"}
    /\ OwnerKey \notin keystore
    /\ keystore' = keystore \cup {OwnerKey}
    /\ UNCHANGED resetOp

\* createLocalSessionKey: secureSet(session_pk.<pub>) and saveIndex.
SessionKeyCreated ==
    /\ resetOp.pc \in {"idle", "done"}
    /\ \E pub \in 1..MaxSessionKeys :
          /\ SessionPkStorageKey(pub) \notin keystore
          /\ keystore' = keystore \cup {SessionPkStorageKey(pub), SessionIndexKey}
    /\ UNCHANGED resetOp

\* actions.reset is called: resetWallet() is awaited.
ResetCall ==
    /\ resetOp.pc \in {"idle", "done"}
    /\ resetOp' = [pc |-> "resetWallet", failed |-> FALSE, cleared |-> FALSE]
    /\ UNCHANGED keystore

\* What resetWallet leaves of the keys: the owner credential is deleted.
AfterResetWallet(keys) == keys \ {OwnerKey}

\* resetWallet resolves: secureDelete(SESSION_KEYS_INDEX_ID) is awaited.
ResetWalletReturns ==
    /\ resetOp.pc = "resetWallet"
    /\ keystore' = AfterResetWallet(keystore)
    /\ resetOp' = [resetOp EXCEPT !.pc = "deleteIndex"]

\* resetWallet rejects: the catch logs, the index is not deleted, and the
\* finally block clears the in-memory state.
ResetWalletFails ==
    /\ resetOp.pc = "resetWallet"
    /\ resetOp' = [pc |-> "done", failed |-> TRUE, cleared |-> TRUE]
    /\ UNCHANGED keystore

\* secureDelete(SESSION_KEYS_INDEX_ID) resolves, having deleted the key or
\* swallowed the failure of the store; the finally block clears the
\* in-memory state.
DeleteIndexReturns ==
    /\ resetOp.pc = "deleteIndex"
    /\ \/ /\ keystore' = keystore \ {SessionIndexKey}
          /\ resetOp' = [resetOp EXCEPT !.pc = "done", !.cleared = TRUE]
       \/ /\ keystore' = keystore
          /\ resetOp' = [resetOp EXCEPT !.pc = "done", !.cleared = TRUE, !.failed = TRUE]

ResetNext ==
    \/ WalletCreated
    \/ SessionKeyCreated
    \/ ResetCall
    \/ ResetWalletReturns
    \/ ResetWalletFails
    \/ DeleteIndexReturns

\* =================================================================== u256

\* A bigint that is not negative is the sequence of its hexadecimal digits
\* (0..15), the most significant first and not 0; zero is the empty sequence.
\* 128n, the width of a part; a value has two parts of hexadecimal digits.
SHIFT_128 == 128
U256_NIBBLES == (2 * SHIFT_128) \div 4

Canon(d) ==
    LET used == {i \in 1..Len(d) : d[i] # 0}
    IN IF used = {} THEN <<>>
       ELSE SubSeq(d, CHOOSE i \in used : \A j \in used : i <= j, Len(d))

PadTo(d, n) == [i \in 1..(n - Len(d)) |-> 0] \o d
Longest(a, b) == IF Len(a) > Len(b) THEN Len(a) ELSE Len(b)

NibbleBit(x, k) == (x \div k) % 2
NibbleAnd(x, y) ==
    8 * NibbleBit(x, 8) * NibbleBit(y, 8) + 4 * NibbleBit(x, 4) * NibbleBit(y, 4)
    + 2 * NibbleBit(x, 2) * NibbleBit(y, 2) + NibbleBit(x, 1) * NibbleBit(y, 1)

\* a & b
BitAnd(a, b) ==
    LET n == Longest(a, b)
        x == PadTo(a, n)
        y == PadTo(b, n)
    IN Canon([i \in 1..n |-> NibbleAnd(x[i], y[i])])

\* a >> bits and a << bits, bits a multiple of 4.
ShiftRight(a, bits) ==
    IF Len(a) > bits \div 4 THEN SubSeq(a, 1, Len(a) - bits \div 4) ELSE <<>>

ShiftLeft(a, bits) ==
    IF Len(a) = 0 THEN <<>> ELSE a \o [i \in 1..(bits \div 4) |-> 0]

\* The carry into digit i of x + y (digits of the same number, i = 0 being
\* the carry out): some lower digit pair overflows and every pair between
\* passes the carry on.
CarryInto(x, y, i) ==
    IF \E j \in (i + 1)..Len(x) :
          /\ x[j] + y[j] >= 16
          /\ \A k \in (i + 1)..(j - 1) : x[k] + y[k] = 15
    THEN 1 ELSE 0

AddWithCarry(x, y) ==
    [i \in 1..(Len(x) + 1) |->
        IF i = 1 THEN CarryInto(x, y, 0)
        ELSE (x[i - 1] + y[i - 1] + CarryInto(x, y, i - 1)) % 16]

\* a + b
Plus(a, b) ==
    LET n == Longest(a, b) IN Canon(AddWithCarry(PadTo(a, n), PadTo(b, n)))

\* (1n << 128n) - 1n
MASK_128 == [i \in 1..(SHIFT_128 \div 4) |-> 15]

\* toHex: "0x" and value.toString(16), the text being a sequence of characters.
ToHex(value) ==
    <<"0", "x">> \o (IF Len(value) = 0 THEN <<"0">> ELSE [i \in 1..Len(value) |-> HexDigits[value[i] + 1]])

\* BigInt(text) of a "0x" literal.
BigIntOfHex(text) ==
    LET digits == SubSeq(text, 3, Len(text))
    IN Canon([i \in 1..Len(digits) |-> CHOOSE k \in 0..15 : HexDigits[k + 1] = digits[i]])

\* Faulty variant of U256FromBigInt: the low part is not masked.
U256FromBigIntUnmasked(value) ==
    [low |-> ToHex(value), high |-> ToHex(ShiftRight(value, SHIFT_128))]

U256FromBigInt(value) ==
    [low |-> ToHex(BitAnd(value, MASK_128)), high |-> ToHex(ShiftRight(value, SHIFT_128))]

BigIntFromU256(lowHex, highHex) ==
    Plus(BigIntOfHex(lowHex), ShiftLeft(BigIntOfHex(highHex), SHIFT_128))

\* The values tried: every length up to 256 bits, with these digits as the
\* leading digit, the digits between and the last digit.
LeadingNibbles == {1, 8, 15}
FillNibbles == {0, 5, 15}
LastNibbles == {0, 1, 15}

U256Inputs ==
    {<<>>} \cup
    { [i \in 1..n |-> IF i = 1 THEN h ELSE IF i = n THEN t ELSE f] :
        n \in 1..U256_NIBBLES, h \in LeadingNibbles, f \in FillNibbles, t \in LastNibbles }

NoParts == [low |-> <<>>, high |-> <<>>]
NoU256 == [pc |-> "idle", value |-> <<>>, parts |-> NoParts, back |-> <<>>]

InitU256 == u256 = NoU256

\* A caller holds a value in [0, 2^256).
ValueChosen ==
    /\ u256.pc = "idle"
    /\ \E v \in U256Inputs : u256' = [NoU256 EXCEPT !.pc = "value", !.value = v]

U256Split ==
    /\ u256.pc = "value"
    /\ u256' = [u256 EXCEPT !.pc = "parts", !.parts = U256FromBigInt(u256.value)]

U256Joined ==
    /\ u256.pc = "parts"
    /\ u256' = [u256 EXCEPT !.pc = "joined", !.back = BigIntFromU256(u256.parts.low, u256.parts.high)]

\* The caller is done with the value read back.
U256Returned ==
    /\ u256.pc = "joined"
    /\ u256' = NoU256

U256Next ==
    \/ ValueChosen
    \/ U256Split
    \/ U256Joined
    \/ U256Returned

\* ========================================= agent chat and transfer execution

\* text.trim() of a text given as its characters.
Trim(text) ==
    LET inked == {i \in 1..Len(text) : text[i] # " "}
    IN IF inked = {} THEN << >>
       ELSE SubSeq(text, CHOOSE i \in inked : \A j \in inked : i <= j,
                         CHOOSE i \in inked : \A j \in inked : i >= j)

TextInputs == {<<" ">>, <<" ", "g", "o", " ">>}
ToolNames == {"get_balances", "execute_transfer"}

\* A message of the conversation; an isStreaming that is not set reads false.
UserMsg(turn, text) == [role |-> "user", turn |-> turn, text |-> text, isStreaming |-> FALSE]

AssistantMsg(turn, fullText) ==
    [role |-> "assistant", turn |-> turn, text |-> fullText, isStreaming |-> TRUE]

IdleChat ==
    [messages |-> << >>, isResponding |-> FALSE, pc |-> "idle", turn |-> 0,
     userMsg |-> UserMsg(0, << >>), before |-> << >>, fullText |-> << >>, deltas |-> 0,
     currentToolCalls |-> << >>, error |-> FALSE]

InitAgent ==
    /\ chat = IdleChat
    /\ button = "idle"
    /\ executed = << >>

\* sendMessage up to `await loadApiKey()`: an empty text or a reply in
\* progress returns at once, else the user message is added.
SendMessage ==
    /\ chat.pc = "idle"
    /\ chat.turn < MaxTurns
    /\ \E text \in TextInputs :
          LET trimmed == Trim(text) IN
          IF Len(trimmed) = 0 \/ chat.isResponding
          THEN UNCHANGED chat
          ELSE LET userMsg == UserMsg(chat.turn + 1, trimmed) IN
               chat' = [chat EXCEPT !.messages = Append(chat.messages, userMsg),
                                    !.isResponding = TRUE, !.error = FALSE,
                                    !.pc = "setup", !.turn = chat.turn + 1,
                                    !.userMsg = userMsg, !.before = chat.messages,
                                    !.fullText = << >>, !.deltas = 0,
                                    !.currentToolCalls = << >>]
    /\ UNCHANGED <<button, executed>>

\* loadApiKey, createProvider and the first callLlm settle: without a key or
\* a provider the call returns with an error set; a rejection goes to the
\* catch; else the stream is read.
SetupSettles ==
    /\ chat.pc = "setup"
    /\ \/ chat' = [chat EXCEPT !.pc = "stream"]
       \/ chat' = [chat EXCEPT !.pc = "idle", !.isResponding = FALSE, !.error = TRUE]
    /\ UNCHANGED <<button, executed>>

\* [...s.messages.slice(0, -1), { ...userMsg, text: trimmed }, assistant]
MessagesAfterDelta(messages, userMsg, fullText) ==
    Slice(messages, Len(messages) - 1) \o <<userMsg, AssistantMsg(userMsg.turn, fullText)>>

\* A delta chunk of the stream being read (the first, or the one after the
\* tool results): fullText += chunk.text and the messages are rewritten.
DeltaChunk ==
    /\ chat.pc \in {"stream", "stream2"}
    /\ chat.deltas < MaxDeltas
    /\ LET fullText == Append(chat.fullText, chat.deltas + 1) IN
          chat' = [chat EXCEPT !.fullText = fullText, !.deltas = chat.deltas + 1,
                               !.messages = MessagesAfterDelta(chat.messages, chat.userMsg, fullText)]
    /\ UNCHANGED <<button, executed>>

\* A tool_call chunk of the first stream: the call joins currentToolCalls.
ToolCallChunk ==
    /\ chat.pc = "stream"
    /\ Len(chat.currentToolCalls) < MaxToolCalls
    /\ \E name \in ToolNames :
          chat' = [chat EXCEPT !.currentToolCalls = Append(chat.currentToolCalls, name)]
    /\ UNCHANGED <<button, executed>>

\* "Mark as complete": isStreaming false on every message.
Completed(c) ==
    [c EXCEPT !.messages = [i \in 1..Len(c.messages) |-> [c.messages[i] EXCEPT !.isStreaming = FALSE]],
              !.isResponding = FALSE, !.pc = "idle"]

\* The stream being read ends (a done chunk, or no more chunks): the tools
\* called are executed, or the reply is complete.
StreamEnds ==
    /\ chat.pc \in {"stream", "stream2"}
    /\ chat' = IF chat.pc = "stream" /\ Len(chat.currentToolCalls) > 0
               THEN [chat EXCEPT !.pc = "tools"]
               ELSE Completed(chat)
    /\ UNCHANGED <<button, executed>>

\* The stream being read, or a call awaited, rejects: the catch block.
ChatFails ==
    /\ chat.pc \in {"stream", "stream2", "tools", "callLlm2"}
    /\ chat' = [chat EXCEPT !.pc = "idle", !.isResponding = FALSE, !.error = TRUE]
    /\ UNCHANGED <<button, executed>>

\* A transfer is executed, `auth` telling what requireOwnerAuth did for it:
\* "succeeded", "skipped" (no hardware or no enrolment) or "none" (not called).
TransferExecuted(path, auth) ==
    executed' = Append(executed, [path |-> path, auth |-> auth])

\* `await executeTool(tc.name, tc.arguments)` resolves for the next tool
\* call; the handler of execute_transfer prepares and executes the transfer.
\* After the last one the model is called again with the results.
ToolExecuted ==
    /\ chat.pc = "tools"
    /\ LET name == Head(chat.currentToolCalls)
           rest == Tail(chat.currentToolCalls)
       IN /\ IF name = "execute_transfer"
             THEN Len(executed) < MaxExecuted /\ TransferExecuted("chat", "none")
             ELSE UNCHANGED executed
          /\ chat' = [chat EXCEPT !.currentToolCalls = rest,
                                  !.pc = IF Len(rest) = 0 THEN "callLlm2" ELSE "tools"]
    /\ UNCHANGED button

\* The second callLlm resolves: fullText = "" and its stream is read.
SecondStreamStarts ==
    /\ chat.pc = "callLlm2"
    /\ chat' = [chat EXCEPT !.pc = "stream2", !.fullText = << >>, !.deltas = 0]
    /\ UNCHANGED <<button, executed>>

\* The Execute button of the transfer preview is pressed: requireOwnerAuth
\* is awaited.
ExecutePressed ==
    /\ button = "idle"
    /\ Len(executed) < MaxExecuted
    /\ button' = "auth"
    /\ UNCHANGED <<chat, executed>>

\* requireOwnerAuth settles: it throws when authenticateAsync does not
\* succeed, and the handler ends there; else transfer.execute() runs.
ExecuteAuthSettles ==
    /\ button = "auth"
    /\ button' = "idle"
    /\ \E outcome \in {"succeeded", "skipped", "failed"} :
          IF outcome = "failed" THEN UNCHANGED executed
          ELSE TransferExecuted("button", outcome)
    /\ UNCHANGED chat

AgentNext ==
    \/ SendMessage
    \/ SetupSettles
    \/ DeltaChunk
    \/ ToolCallChunk
    \/ StreamEnds
    \/ ChatFails
    \/ ToolExecuted
    \/ SecondStreamStarts
    \/ ExecutePressed
    \/ ExecuteAuthSettles

\* ========================================================== specifications

Init ==
    /\ now = 0
    /\ InitRegistry
    /\ InitKeyring
    /\ InitValidity
    /\ InitSessionSigner
    /\ InitTypedData
    /\ InitFlags
    /\ InitReceipt
    /\ InitCredential
    /\ InitApp
    /\ InitTrade
    /\ InitReset
    /\ InitU256
    /\ InitAgent
    /\ InitPoller

\* The registry with its writes serialized by the caller (one in flight).
NextRegistry == RegistryNext(1) /\ UNCHANGED <<keyVars, valVars, sksVars, tdVars, flagVars, recVars, credVars, appVars, tradeVars, resetVars, u256Vars, agentVars, pollVars>>

SpecRegistry == Init /\ [][NextRegistry]_vars

\* The registry with two writes in flight at once: a caller that does not
\* wait for one operation before starting the next.
NextRegistryRace == RegistryNext(2) /\ UNCHANGED <<keyVars, valVars, sksVars, tdVars, flagVars, recVars, credVars, appVars, tradeVars, resetVars, u256Vars, agentVars, pollVars>>

SpecRegistryRace == Init /\ [][NextRegistryRace]_vars

\* One KeyringProxySigner and its proxy.
NextKeyring == KeyringNext /\ UNCHANGED <<regVars, valVars, sksVars, tdVars, flagVars, recVars, credVars, appVars, tradeVars, resetVars, u256Vars, agentVars, pollVars>>

SpecKeyring == Init /\ [][NextKeyring]_vars

\* Calls of isSessionKeyValidOnchain while time passes.
NextValidity == ValidityNext /\ UNCHANGED <<regVars, keyVars, sksVars, tdVars, flagVars, recVars, credVars, appVars, tradeVars, resetVars, u256Vars, agentVars, pollVars>>

SpecValidity == Init /\ [][NextValidity]_vars

\* Calls on one SessionKeySignerV2 object.
NextSessionSigner == SessionSignerNext /\ UNCHANGED <<now, regVars, keyVars, valVars, tdVars, flagVars, recVars, credVars, appVars, tradeVars, resetVars, u256Vars, agentVars, pollVars>>

SpecSessionSigner == Init /\ [][NextSessionSigner]_vars

\* Calls of the typed-data builders.
NextTypedData == TypedDataNext /\ UNCHANGED <<now, regVars, keyVars, valVars, sksVars, flagVars, recVars, credVars, appVars, tradeVars, resetVars, u256Vars, agentVars, pollVars>>

SpecTypedData == Init /\ [][NextTypedData]_vars

\* Calls of the feature-flag functions across restarts of the app.
NextFlags == FlagsNext /\ UNCHANGED <<now, regVars, keyVars, valVars, sksVars, tdVars, recVars, credVars, appVars, tradeVars, resetVars, u256Vars, agentVars, pollVars>>

SpecFlags == Init /\ [][NextFlags]_vars

\* The status poller, the activity log and the app around them.
NextPoller == PollerNext(MaxLogged) /\ UNCHANGED <<now, regVars, keyVars, valVars, sksVars, tdVars, flagVars, recVars, credVars, appVars, tradeVars, resetVars, u256Vars, agentVars>>

SpecPoller == Init /\ [][NextPoller]_vars

\* The status poller when what it waits for arrives: a pending timeout fires,
\* and listActivity, every receipt request (it has a 10 s timeout of its own)
\* and every updateActivityByTxHash settle. Nothing is assumed of the app
\* state, of the effect re-running or of new records.
PollerStep(A) ==
    A /\ UNCHANGED <<now, regVars, keyVars, valVars, sksVars, tdVars, flagVars, recVars, credVars, appVars, tradeVars, resetVars, u256Vars, agentVars>>

PollerFairness ==
    /\ WF_vars(PollerStep(TimerFires))
    /\ WF_vars(PollerStep(ListReturns \/ ListFails))
    /\ \A i \in 1..MaxLogged :
          /\ WF_vars(PollerStep(ReceiptReturns(i)))
          /\ WF_vars(PollerStep(UpdateReturns(i) \/ UpdateFails(i)))

SpecPollerFair == Init /\ [][NextPoller]_vars /\ PollerFairness

\* The status poller as subscriptions are made and torn down, every awaited
\* call settling and a pending timeout firing.
NextSubscription == PollerNext(MaxWatched) /\ UNCHANGED <<now, regVars, keyVars, valVars, sksVars, tdVars, flagVars, recVars, credVars, appVars, tradeVars, resetVars, u256Vars, agentVars>>

SubscriptionFairness ==
    /\ WF_vars(PollerStep(TimerFires))
    /\ WF_vars(PollerStep(ListReturns \/ ListFails))
    /\ \A i \in 1..MaxWatched :
          /\ WF_vars(PollerStep(ReceiptReturns(i)))
          /\ WF_vars(PollerStep(UpdateReturns(i) \/ UpdateFails(i)))

SpecSubscription == Init /\ [][NextSubscription]_vars /\ SubscriptionFairness

\* The status poller of an app in the foreground, with more pending records
\* than the pool takes at once.
NextPool == PoolNext(MaxRecords) /\ UNCHANGED <<now, regVars, keyVars, valVars, sksVars, tdVars, flagVars, recVars, credVars, appVars, tradeVars, resetVars, u256Vars, agentVars>>

SpecPool == Init /\ [][NextPool]_vars

\* One record polled once, under every receipt and every rejection.
NextReceipt == ReceiptNext /\ UNCHANGED <<now, regVars, keyVars, valVars, sksVars, tdVars, flagVars, credVars, appVars, tradeVars, resetVars, u256Vars, agentVars, pollVars>>

SpecReceipt == Init /\ [][NextReceipt]_vars

\* createLocalSessionKey called with every kind of params.
NextCredential == CredentialNext /\ UNCHANGED <<now, regVars, keyVars, valVars, sksVars, tdVars, flagVars, recVars, appVars, tradeVars, resetVars, u256Vars, agentVars, pollVars>>

SpecCredential == Init /\ [][NextCredential]_vars

\* The app state under the handlers of the Policies screen and reset.
NextApp == AppNext(MaxPolicyAppends) /\ UNCHANGED <<now, regVars, keyVars, valVars, sksVars, tdVars, flagVars, recVars, credVars, tradeVars, resetVars, u256Vars, agentVars, pollVars>>

SpecApp == Init /\ [][NextApp]_vars

\* The in-memory activity list filled beyond what it keeps.
NextAppLog == AppLogNext(MaxAppends) /\ UNCHANGED <<now, regVars, keyVars, valVars, sksVars, tdVars, flagVars, recVars, credVars, tradeVars, resetVars, u256Vars, agentVars, pollVars>>

SpecAppLog == Init /\ [][NextAppLog]_vars

\* The Trade screen while the caps and the emergency lockdown are changed on
\* the Policies screen.
NextTrade ==
    \/ TradeNext /\ UNCHANGED <<now, regVars, keyVars, valVars, sksVars, tdVars, flagVars, recVars, credVars, appVars, resetVars, u256Vars, agentVars, pollVars>>
    \/ (SaveCaps(MaxPolicyAppends) \/ LockdownSwitch \/ OwnerAuthSettles(MaxPolicyAppends))
          /\ UNCHANGED <<now, regVars, keyVars, valVars, sksVars, tdVars, flagVars, recVars, credVars, resetVars, u256Vars, agentVars, pollVars, tradeVars>>

SpecTrade == Init /\ [][NextTrade]_vars

\* Wallet and session keys created, and the app reset.
NextReset == ResetNext /\ UNCHANGED <<now, regVars, keyVars, valVars, sksVars, tdVars, flagVars, recVars, credVars, appVars, tradeVars, u256Vars, agentVars, pollVars>>

SpecReset == Init /\ [][NextReset]_vars

\* Values split into U256Parts and read back.
NextU256 == U256Next /\ UNCHANGED <<now, regVars, keyVars, valVars, sksVars, tdVars, flagVars, recVars, credVars, appVars, tradeVars, resetVars, agentVars, pollVars>>

SpecU256 == Init /\ [][NextU256]_vars

\* The agent screen: chat turns and transfer executions.
NextAgent == AgentNext /\ UNCHANGED <<now, regVars, keyVars, valVars, sksVars, tdVars, flagVars, recVars, credVars, appVars, tradeVars, resetVars, u256Vars, pollVars>>

SpecAgent == Init /\ [][NextAgent]_vars

\* ------------------------------------------------ registry: checked claims

EntriesOf(list, k) == {i \in 1..Len(list) : list[i].key = k}

\* Operation o of the given kind settles in this step with the given outcome.
Settles(o, kind, outcome) ==
    /\ ops[o].kind = kind
    /\ ops'[o].kind = "none"
    /\ lastCall'.outcome = outcome

TargetsOf(o) ==
    IF ops[o].kind = "emergency" THEN 1..Len(index) ELSE EntriesOf(index, ops[o].key)

C6_ConfirmationFailureLeavesState ==
    [][\A o \in OpIds :
          (ops[o].pc = "wait" /\ ops'[o].pc \notin {"wait", "loadIndex"}) =>
             /\ lastCall'.outcome = "rejected"
             /\ lastCall'.kind = ops[o].kind
             /\ ops'[o] = IdleOp
             /\ index' = index
             /\ secrets' = secrets]_vars

C6_Witness ==
    /\ lastCall.kind = "revoke" /\ lastCall.outcome = "rejected"
    /\ lastCall.error = "ConfirmationFailed"
    /\ lastCall.key \in secrets
    /\ \E i \in EntriesOf(index, lastCall.key) : index[i].revokedAt = {}

\* A registerSessionKeyOnchain call made in this step with a credential whose
\* allowedContracts list is not empty.
RegisterCalledRestricted ==
    /\ calls' = calls + 1
    /\ \/ /\ ops' = ops
          /\ lastCall'.kind = "register"
          /\ lastCall'.restricted
       \/ \E o \in OpIds :
             /\ ops[o].kind = "none"
             /\ ops'[o].kind = "register"
             /\ Len(ops'[o].session.allowedContracts) > 0

\* C7: registerSessionKeyOnchain with a non-empty allowedContracts list fails
\* with the contract-restrictions error, submits no transaction and leaves
\* the stored index (the entry's allowedContracts included) unchanged.
C7_RestrictedRegisterRejected ==
    [][RegisterCalledRestricted =>
          /\ lastCall'.outcome = "rejected"
          /\ lastCall'.error = "ContractRestrictionsUnsupported"
          /\ lastCall'.tx = 0
          /\ ops' = ops
          /\ chain' = chain
          /\ index' = index
          /\ secrets' = secrets]_vars

C7_Witness ==
    /\ lastCall.kind = "register" /\ lastCall.restricted
    /\ lastCall.outcome = "rejected"
    /\ lastCall.error = "ContractRestrictionsUnsupported"
    /\ chain.hash = 0
    /\ \E i \in EntriesOf(index, lastCall.key) :
          Len(index[i].allowedContracts) = MAX_ALLOWED_TARGETS

\* ------------------------------------------ keyring proxy signer: claims

\* The session public key a response carries, as a number: sessionPublicKey
\* when present, else the first felt of the signature.
CarriedKeys(resp) ==
    {k.v : k \in {f \in resp.spk : f.hex}}
       \cup (IF Len(resp.signature) >= 1 /\ resp.signature[1].hex
             THEN {resp.signature[1].v} ELSE {})

\* C1: every signature one signer returns carries the session public key of
\* the first one it returned (as numbers), and a response carrying another
\* key makes its call fail without a signature.
C1_SessionKeyPinned ==
    [][/\ \A i \in 1..Len(accepted') : accepted'[i] = accepted'[1]
       /\ (/\ inflight' = inflight - 1
           /\ Len(accepted) > 0
           /\ lastSign'.response # NoResponse
           /\ \E k \in CarriedKeys(lastSign'.response) : k # accepted[1])
          => (/\ lastSign'.outcome = "error"
              /\ lastSign'.signature = << >>
              /\ accepted' = accepted
              /\ signer' = signer)]_vars

C1_Witness ==
    /\ Len(accepted) >= 2
    /\ lastSign.outcome = "error" /\ lastSign.error = "PubKeyChanged"
    /\ signer.cachedSessionPublicKey = {Hex(PubKeyA, 0)}
    /\ lastSign.response.signature[1] = Hex(PubKeyB, 0)

\* ------------------------------------------------ validity check: claims

\* The number an element of the result stands for: zero when it is absent.
FieldOf(call, i) ==
    IF i <= Len(call.res) /\ call.res[i] # Undefined THEN call.res[i].v ELSE 0

\* The call succeeded with a result whose elements, where present, are felts.
WellFormedResult(call) ==
    /\ call.ok
    /\ call.array
    /\ \A i \in 1..Len(call.res) : call.res[i] = Undefined \/ IsHexFelt(call.res[i])

\* C8: isSessionKeyValidOnchain never throws, and returns true exactly when
\* get_session_data succeeded with validUntil > now and callsUsed < maxCalls.
C8_ValidExactlyWhenLiveOnchain ==
    validity.pc = "settled" =>
        /\ ~validity.result.threw
        /\ validity.result.value <=>
              /\ WellFormedResult(validity.call)
              /\ FieldOf(validity.call, 1) > validity.at
              /\ FieldOf(validity.call, 3) < FieldOf(validity.call, 2)

C8_Witness ==
    /\ validity.pc = "settled"
    /\ validity.result.value
    /\ validity.at > 0
    /\ Len(validity.call.res) = 3

\* ------------------------------------------------ session signer: claims

\* C9: every signature returned by signMessage and signTransaction is the five
\* elements [sessionPublicKey, r, s, 0x7632, 0x2].
C9_StrictV2Signature ==
    signed.outcome = "returned" /\ signed.kind \in {"signMessage", "signTransaction"} =>
        /\ Len(signed.signature) = 5
        /\ signed.signature[1] = sessionSigner.sessionPublicKey
        /\ signed.signature[4] = "0x7632"
        /\ signed.signature[5] = "0x2"

\* C10: deploy-account and declare transactions are not signed with the
\* session private key.
C10_DeployDeclareNotSessionSigned ==
    /\ signed.outcome = "returned"
    /\ signed.kind \in {"signDeployAccountTransaction", "signDeclareTransaction"}
    => signed.signedWith # SessionPrivateKey

\* --------------------------------------------------- status poller: claims

\* C2: the status poller never has more than 3 receipt requests in flight.
C2_BoundedReceiptRequests ==
    /\ Cardinality(InFlightReceipts) <= 3
    /\ Cardinality(Running) <= 3

C2_Witness ==
    /\ Cardinality(InFlightReceipts) = 3
    /\ cycle.waiting
    /\ cycle.next <= Len(cycle.items)

\* ------------------------------------------------ typed-data builders: claims

DifferOnlyInAccount(x, y) ==
    /\ x.accountAddress # y.accountAddress
    /\ [x EXCEPT !.accountAddress = y.accountAddress] = y

C31_AccountChangesPayload ==
    (/\ typed.built # "none"
     /\ typedBefore.built = typed.built
     /\ DifferOnlyInAccount(typedBefore.params, typed.params))
    => JsonStringify(typedBefore.payload) # JsonStringify(typed.payload)

\* The registration builder has been called twice, on inputs that differ
\* only in accountAddress.
C31_Witness ==
    /\ typed.built = "register"
    /\ typedBefore.built = "register"
    /\ DifferOnlyInAccount(typedBefore.params, typed.params)
    /\ JsonStringify(typedBefore.payload) # JsonStringify(typed.payload)

\* ------------------------------------------------------ feature flags: claims

\* C12: isEnabled("session_signer_v2") returns true, whatever is stored or
\* cached and whatever setFlag and resetFlags calls were made.
C12_SessionSignerV2AlwaysEnabled == enabled # "false"

C12_Witness ==
    /\ enabled = "true"
    /\ stored = Json({<<"session_signer_v2", FALSE>>})
    /\ cache = Null

\* --------------------------------- keyring proxy signer: claims on failures

\* C13: a signTransaction call made when the configured validUntil is not
\* after the current time fails and sends no request.
C13_ExpiredFailsWithoutSending ==
    [][(signCalls' = signCalls + 1 /\ signer.validUntil <= now)
          => (/\ sent' = sent
              /\ inflight' = inflight
              /\ lastSign'.outcome = "error"
              /\ lastSign'.message = <<"Remote signer validUntil is already expired">>
              /\ lastSign'.signature = << >>)]_vars

C13_Witness ==
    /\ lastSign.settledBy = "expired"
    /\ now = signer.validUntil
    /\ sent > 0

\* The signature of a response is an array of exactly four hex felts.
FourHexFelts(sig) == Len(sig) = 4 /\ \A i \in 1..4 : sig[i].hex

\* A 2xx response was read and its signature is not four hex felts.
MalformedRead ==
    /\ lastSign.settledBy = "response"
    /\ lastSign.response.ok
    /\ ~FourHexFelts(lastSign.response.signature)

\* C14 as stated: every signature that is not an array of four hex felts
\* fails with the error naming the shape [pubkey, r, s, valid_until].
C14_MalformedNamesShape ==
    MalformedRead =>
        /\ lastSign.outcome = "error"
        /\ lastSign.signature = << >>
        /\ lastSign.message =
              <<"Invalid keyring signature response: expected [pubkey, r, s, valid_until]">>

\* C14: a 2xx response whose signature is not an array of four hex felts
\* fails without a signature; the error names the shape [pubkey, r, s,
\* valid_until] when it is not four elements, and says that all felts must be
\* hex when it is four elements of which one is no hex felt.
C14_MalformedRejected ==
    MalformedRead =>
        /\ lastSign.outcome = "error"
        /\ lastSign.signature = << >>
        /\ lastSign.message =
              IF Len(lastSign.response.signature) # 4
              THEN <<"Invalid keyring signature response: expected [pubkey, r, s, valid_until]">>
              ELSE <<"Invalid keyring signature response: all signature felts must be hex">>

C14_Witness ==
    /\ MalformedRead
    /\ Len(lastSign.response.signature) = 4
    /\ lastSign.outcome = "error"

\* C15: a returned signature has a fourth felt numerically equal to the
\* validUntil of the request, and a well-formed response with another fourth
\* felt is rejected.
C15_ValidUntilBound ==
    /\ lastSign.outcome = "signature" =>
          /\ Len(lastSign.signature) = 4
          /\ lastSign.signature[4].v = signer.validUntil
    /\ (/\ lastSign.settledBy = "response"
        /\ lastSign.response.ok
        /\ FourHexFelts(lastSign.response.signature)
        /\ lastSign.response.signature[4].v # signer.validUntil)
       => lastSign.outcome = "error" /\ lastSign.signature = << >>

C15_Witness ==
    /\ lastSign.outcome = "signature"
    /\ lastSign.response.signature[4] = Hex(ConfigValidUntil, 1)
    /\ lastSign.signature[4] = Hex(ConfigValidUntil, 0)

\* C16: a request aborted at its deadline makes signTransaction fail with
\* "timed out", without a signature.
C16_TimeoutFails ==
    lastSign.settledBy = "abort" =>
        /\ lastSign.outcome = "error"
        /\ lastSign.message = <<"Keyring proxy request timed out">>
        /\ lastSign.signature = << >>

C16_Witness ==
    /\ lastSign.settledBy = "abort"
    /\ sent > 0
    /\ Len(accepted) > 0

\* C17: no error of the remote signer holds the HMAC secret.
C17_NoSecretInErrors ==
    lastSign.outcome = "error" =>
        \A i \in 1..Len(lastSign.message) : lastSign.message[i] # HmacSecret

\* ------------------------------------------ status poller: claims on cycles

\* A poll cycle ends in this step.
CycleCompletes == isPolling /\ ~isPolling'

\* C18 as stated: when a poll cycle that enumerated the log completes, no
\* record that was older than 30 minutes at its start is pending.
C18_StaleNotPendingAfterCycle ==
    [][(CycleCompletes /\ cycle.pc = "running")
          => \A r \in 1..cycle.stale : activity'[r].status # "pending"]_vars

\* C18: a pending record older than 30 minutes at the start of a cycle gets no
\* receipt request in it; the update the cycle makes for it, when it succeeds,
\* sets it to unknown; and no receipt is requested for a record that is not
\* pending.
C18_StaleMarkedUnknown ==
    [][/\ \A i \in InFlightReceipts :
             /\ cycle.items[i] > cycle.stale
             /\ activity[cycle.items[i]].status = "pending"
       /\ \A i \in 1..Len(cycle.tasks) :
             (/\ cycle.tasks[i] = "marking"
              /\ cycle.items[i] <= cycle.stale
              /\ (cycle'.pc = "idle" \/ cycle'.tasks[i] \in Settled)
              /\ activity' # activity)
             => /\ activity'[cycle.items[i]].status = "unknown"
                /\ \A r \in 1..Len(activity) :
                      r # cycle.items[i] => activity'[r] = activity[r]
       /\ \A i \in 1..Len(cycle.tasks) :
             cycle.items[i] <= cycle.stale => cycle.tasks[i] \in {"queued", "marking", "done", "updateFailed"}]_vars

C18_Witness ==
    /\ staleCount >= 1
    /\ activity[1].status = "unknown"
    /\ cycle.pc = "running"
    /\ InFlightReceipts # {}

\* C20: a poll cycle starts only while the app is active and the polling
\* effect of live mode is in place.
C20_CycleStartsOnlyActiveAndLive ==
    [][(~isPolling /\ isPolling') => (appState = "active" /\ live')]_vars

C20_Witness ==
    /\ IsBackgrounded(appState)
    /\ live
    /\ timer
    /\ ~isPolling
    /\ PendingItems(activity) # << >>


\* ----------------------------------------------------- receipt mapping: claims

\* C19: a receipt with execution_status REVERTED or FAILED gives the record
\* the status reverted together with a revertReason; SUCCEEDED, or any accepted
\* finality otherwise, gives succeeded; a not-found or pending answer leaves
\* the record pending and stores nothing.
C19_ReceiptMapsToStatus ==
    /\ (/\ polled.answer = "receipt"
        /\ polled.receipt.execution_status \in {"REVERTED", "FAILED"})
       => /\ polled.record.status = "reverted"
          /\ polled.record.revertReason \notin {Absent, NullValue}
    /\ (/\ polled.answer = "receipt"
        /\ polled.receipt.execution_status \notin {"REVERTED", "FAILED"}
        /\ \/ polled.receipt.execution_status = "SUCCEEDED"
           \/ polled.receipt.finality_status \in {"ACCEPTED_ON_L2", "ACCEPTED_ON_L1"})
       => polled.record.status = "succeeded"
    /\ (/\ polled.answer = "error"
        /\ Includes(polled.message, <<"not", "found">>) \/ Includes(polled.message, <<"pending">>))
       => /\ ~polled.updated
          /\ polled.record.status = "pending"


\* ------------------------------------------- status poller: pause and resume

\* A cycle in progress completes, whatever the app state becomes.
CycleInProgressCompletes == isPolling ~> ~isPolling

\* No cycle begins while the app is inactive or in the background.
NoCycleBeginsBackgrounded ==
    [][(~isPolling /\ isPolling') => ~IsBackgrounded(appState)]_vars

\* With the app in the foreground and the polling effect in place, a cycle
\* runs, unless the app leaves the foreground or the effect is cleaned up
\* first.
ResumedEventuallyPolls ==
    (live /\ appState = "active") ~> (isPolling \/ ~live \/ IsBackgrounded(appState))

\* C21: while the app is backgrounded a cycle in progress completes and no
\* new cycle begins; once the app is back in the foreground, still live and
\* with the subscription in place, a new poll cycle eventually runs.
C21_PauseAndResume ==
    /\ CycleInProgressCompletes
    /\ NoCycleBeginsBackgrounded
    /\ ResumedEventuallyPolls


\* ---------------------------------------------- status poller: failed polls

\* C22: when the receipt request of a pending record fails with an error that
\* is neither "not found" nor "pending", the record is not updated and stays
\* pending, the task ends in the catch without ending the cycle for the other
\* records (those running go on, those queued are still started, and the
\* cycle ends only when every task has ended), and every later cycle
\* enumerates the record as long as it is pending.
C22_FailedPollLeavesPending ==
    [][/\ \A i \in 1..Len(cycle.tasks) :
            ReceiptAnswered(i, "ERROR")
            => /\ activity' = activity
               /\ activity'[cycle.items[i]].status = "pending"
               /\ cycle'.pc = "idle" \/ cycle'.tasks[i] = "pollFailed"
               /\ \A j \in 1..Len(cycle.tasks) \ {i} :
                     IF cycle'.pc = "idle"
                     THEN cycle.tasks[j] \in Settled
                     ELSE \/ cycle'.tasks[j] = cycle.tasks[j]
                          \/ cycle.tasks[j] = "queued" /\ cycle'.tasks[j] \in {"receipt", "marking"}
       /\ (cycle.pc = "running" /\ cycle'.pc = "running" /\ ~cycle'.waiting)
          => \A j \in 1..Len(cycle.tasks) : cycle'.tasks[j] # "queued"
       /\ (cycle.pc = "listing" /\ cycle'.pc = "running")
          => \A r \in 1..Len(activity) :
                activity[r].status = "pending"
                => \E j \in 1..Len(cycle'.items) :
                      /\ cycle'.items[j] = r
                      /\ cycle'.tasks[j] = "queued" \/ TooOld(r, cycle'.stale) \/ j \in InFlightReceipts']_vars

C22_Witness ==
    /\ cycle.pc = "running"
    /\ \E i \in 1..Len(cycle.tasks) :
          /\ cycle.tasks[i] = "pollFailed"
          /\ activity[cycle.items[i]].status = "pending"
          /\ \E j \in InFlightReceipts : j > i


\* ------------------------------------------- status poller: terminal statuses

\* C23: a record that is succeeded, reverted or unknown keeps its status in
\* every step, whatever the poller, the app and the effect do next.
C23_TerminalStatusKept ==
    [][\A r \in 1..Len(activity) :
          activity[r].status # "pending" => activity'[r].status = activity[r].status]_vars

C23_Witness ==
    /\ Len(activity) >= 2
    /\ activity[1].status \in {"succeeded", "reverted"}
    /\ cycle.pc = "running"
    /\ InFlightReceipts # {}
    /\ \A i \in 1..Len(cycle.items) : cycle.items[i] # 1


\* ------------------------------------------------ created credentials: claims

\* C24: every credential createLocalSessionKey produces has
\* validAfter < validUntil, validUntil > createdAt + 60, spendingLimit >= 0
\* and at most 4 allowedContracts.
C24_CredentialInvariants ==
    created.called
    => /\ created.item.validAfter < created.item.validUntil
       /\ created.item.validUntil > created.item.createdAt + 60
       /\ DecimalValue(created.item.spendingLimit) >= 0
       /\ Len(created.item.allowedContracts) <= 4


\* ------------------------------------------------------ app state: claims

\* C25: the policy changes only in a step of a handler whose owner
\* authentication has succeeded.
C25_MutationsAuthenticated ==
    [][policy' # policy => ownerAuth'.status = "succeeded"]_vars


\* Every element of sequence a is an element of sequence b.
Within(a, b) == \A i \in 1..Len(a) : \E j \in 1..Len(b) : a[i] = b[j]

\* Policy q only tightens policy p: no cap is larger, no recipient or target
\* is new (an empty target list allows any contract), and a lockdown stays.
Tightens(p, q) ==
    /\ q.perTxCapUsd <= p.perTxCapUsd
    /\ q.dailySpendCapUsd <= p.dailySpendCapUsd
    /\ Within(q.allowlistedRecipients, p.allowlistedRecipients)
    /\ p.allowedTargets = << >> \/ (q.allowedTargets # << >> /\ Within(q.allowedTargets, p.allowedTargets))
    /\ p.emergencyLockdown => q.emergencyLockdown

\* C27: when a step only tightens the policy, every input the policy check
\* denied before the step is denied after it.
C27_TighteningKeepsDenials ==
    [][Tightens(policy, policy')
         => \A x \in TradeInputs : Blocked(policy, x) => Blocked(policy', x)]_vars

C27_Witness ==
    /\ Tightens(InitialPolicy, policy)
    /\ policy # InitialPolicy
    /\ \E x \in TradeInputs : ~Blocked(InitialPolicy, x) /\ Blocked(policy, x)


\* C29: the in-memory activity list never holds more than 50 records, and it
\* holds the most recently appended ones, newest first: an append puts the new
\* record in front of the ones held and drops what comes after the 50th.
C29_ActivityKeepsLastFifty ==
    /\ [](/\ Len(appLog) <= 50
          /\ \A i \in 1..Len(appLog) : appLog[i].id = appended - i + 1)
    /\ [][appended' # appended
            => /\ Len(appLog') = Min(Len(appLog) + 1, 50)
               /\ appLog'[1].id = appended'
               /\ \A i \in 2..Len(appLog') : appLog'[i] = appLog[i - 1]]_vars

C29_Witness ==
    /\ Len(appLog) = 50
    /\ appended > 50
    /\ appLog[50].id = appended - 49


\* ------------------------------------------------------ Trade screen: claims

\* C26 as stated: while emergencyLockdown is enabled no step of the Trade
\* screen opens a preview, requests a quote, confirms a swap or simulates a
\* trade, and what is denied is denied with "Emergency lockdown is enabled."
C26_LockdownDeniesEverything ==
    [][(policy.emergencyLockdown /\ trade' # trade)
         => /\ trade'.last \notin {"previewOpened", "quoteRequested", "swapConfirmed", "tradeSimulated"}
            /\ trade'.last = "denied" => trade'.alert = "Emergency lockdown is enabled."]_vars

\* C26 as amended: a preview or an execution asked for while emergencyLockdown
\* is enabled is denied with "Emergency lockdown is enabled.", leaves no
\* preview open and starts nothing, and no swap is confirmed while the
\* lockdown is enabled.
C26_LockdownDeniesRequests ==
    [][(policy.emergencyLockdown /\ trade' # trade)
         => /\ trade'.last # "swapConfirmed"
            /\ (trade.pc = "idle" /\ trade'.last \notin {"mode", "edited", "closed"})
               => /\ trade'.last = "denied"
                  /\ trade'.alert = "Emergency lockdown is enabled."
                  /\ ~trade'.previewOpen
                  /\ trade'.pc = "idle"]_vars

C26_Witness ==
    /\ policy.emergencyLockdown
    /\ trade.last = "denied"
    /\ trade.alert = "Emergency lockdown is enabled."
    /\ ~Blocked([policy EXCEPT !.emergencyLockdown = FALSE], trade.x)


\* ------------------------------------------------------------ reset: claims

\* C28: after reset completes, secure storage holds no owner credential, no
\* session index and no session_pk.<publicKey> created earlier.  Stated for
\* the resets in which no call failed, the most favourable case.
C28_ResetWipesSecrets ==
    (resetOp.pc = "done" /\ ~resetOp.failed)
    => /\ OwnerKey \notin keystore
       /\ SessionIndexKey \notin keystore
       /\ \A pub \in 1..MaxSessionKeys : SessionPkStorageKey(pub) \notin keystore


\* ------------------------------------------------------------- u256: claims

\* C30: for every v in [0, 2^256), bigIntFromU256(u256FromBigInt(v)) = v.
C30_U256RoundTrip ==
    u256.pc = "joined" => u256.back = u256.value

\* A value of more than 128 bits, neither of whose parts is zero, has been
\* split and read back.
C30_Witness ==
    /\ u256.pc = "joined"
    /\ Len(u256.value) = U256_NIBBLES
    /\ u256.parts.low # ToHex(<<>>)
    /\ u256.parts.high # ToHex(<<>>)
    /\ Len(u256.parts.low) < Len(u256.parts.high)


\* C32: no two poll cycles execute at once. A cycle begins only when none is
\* in flight, the guard is held exactly while a cycle is in flight, and a
\* poll invocation (the initial call of a subscription, a timer firing) made
\* while a cycle is in flight changes nothing of the poller but the
\* subscription it belongs to.
CycleBegins == cycle'.pc = "listing" /\ cycle.pc # "listing"

C32_OneCycleAtATime ==
    /\ [](isPolling <=> cycle.pc # "idle")
    /\ [][CycleBegins => (~isPolling /\ cycle.pc = "idle")]_vars
    /\ [][(isPolling /\ (Subscribe \/ TimerFires))
            => UNCHANGED <<activity, isPolling, cycle>>]_vars

\* A subscription was made while the cycle of the one before, torn down,
\* is still in flight.
C32_Witness ==
    /\ live
    /\ isPolling
    /\ cycle.cancelled
    /\ cycle.pc = "running"


\* C33: once a subscription is torn down, its cycle in flight runs to its
\* end, the end of a cancelled cycle arms no timer, no timer is pending
\* while no subscription is active, and a cycle begins only under an active
\* subscription.
C33_TornDownStops ==
    /\ (cycle.cancelled ~> cycle.pc = "idle")
    /\ [][(cycle.cancelled /\ cycle'.pc = "idle") => (timer' = timer /\ ~isPolling')]_vars
    /\ [](~live => ~timer)
    /\ [][CycleBegins => (live' /\ ~cycle'.cancelled)]_vars

\* The subscription is torn down and its cycle is still in flight.
C33_Witness ==
    /\ ~live
    /\ isPolling
    /\ cycle.cancelled
    /\ cycle.pc = "running"


\* C34: while a subscription is active, poll cycles keep recurring: from any
\* moment of an active subscription, a cycle of it gets in flight or a timer
\* for its next poll is pending, unless it is torn down first; this also
\* when it was made while the cycle of the one before was in flight.
C34_PollingKeepsRecurring ==
    live ~> (timer \/ (isPolling /\ ~cycle.cancelled) \/ ~live)


\* ------------------------------------------------- registry: concurrent writes

\* The index holds the credential of key k with revokedAt unset.
HeldUnrevoked(list, k) == \E i \in 1..Len(list) : list[i].key = k /\ list[i].revokedAt = {}

HeldRevoked(list, k) == \E i \in 1..Len(list) : list[i].key = k /\ list[i].revokedAt # {}

\* C35: once a revoke operation has completed, the index never again holds
\* a credential it revoked with revokedAt unset, whatever writes are in
\* flight: stated for the steps that follow the completion, the last call
\* to have settled being that revoke or emergency-revoke-all.
C35_RevocationNeverLost ==
    [][\A k \in Keys :
          (/\ lastCall.outcome = "resolved"
           /\ \/ lastCall.kind = "revoke" /\ lastCall.key = k
              \/ lastCall.kind = "emergency"
           /\ HeldRevoked(index, k))
          => ~HeldUnrevoked(index', k)]_vars


\* -------------------------------------- keyring proxy signer: overlapping calls

\* C36: signTransaction calls that overlap in time on one signer return
\* signatures that carry the same session public key.
C36_OverlappingCallsSameKey ==
    \A i, j \in 1..Len(overlapKeys) : overlapKeys[i] = overlapKeys[j]

\* Two calls were started before either settled, and both have returned a
\* signature.
C36_Witness ==
    /\ signCalls = 2
    /\ sent = 2
    /\ Len(overlapKeys) = 2
    /\ Len(accepted) = 2

\* C37: a signTransaction call that fails, for whatever reason, leaves the
\* pinned session public key, the last request id and the last message hash
\* as they were.
CallFails ==
    /\ lastSign'.outcome = "error"
    /\ \/ inflight' = inflight - 1
       \/ signCalls' = signCalls + 1 /\ inflight' = inflight

C37_FailureLeavesSignerState ==
    [][CallFails => signer' = signer]_vars

\* A call has failed on a signer that had returned a signature before: its
\* key is pinned and its correlation fields are set.
C37_Witness ==
    /\ lastSign.outcome = "error"
    /\ lastSign.settledBy = "abort"
    /\ signer.cachedSessionPublicKey # {}
    /\ signer.lastRequestId # {}
    /\ signer.lastMessageHash # {}


\* ------------------------------------------------------------ agent: claims

\* C38: a transfer is executed only after owner authentication succeeded for
\* that execution, from the Execute button and from the execute_transfer
\* tool call of the chat. Stated with a requireOwnerAuth that resolved
\* without prompting counted as passed, the most favourable reading.
C38_TransferNeedsOwnerAuth ==
    \A i \in 1..Len(executed) : executed[i].auth \in {"succeeded", "skipped"}

\* The messages of a turn held by the conversation.
OfTurn(messages, role, turn) ==
    {i \in 1..Len(messages) : messages[i].role = role /\ messages[i].turn = turn}

\* C39: whatever the number of delta chunks of a reply, the conversation
\* holds the user message of the turn once and at most one assistant message
\* of it, after the messages it held before, unchanged.
C39_OneUserOneAssistant ==
    (chat.turn > 0 /\ ~chat.error) =>
        /\ Cardinality(OfTurn(chat.messages, "user", chat.turn)) = 1
        /\ Cardinality(OfTurn(chat.messages, "assistant", chat.turn)) = (IF chat.deltas > 0 THEN 1 ELSE 0)
        /\ SubSeq(chat.messages, 1, Len(chat.before)) = chat.before

====
